---------------------------- MODULE Spec2Model ----------------------------
(***************************************************************************)
(* Replication endpoints of zrepl (package endpoint) and the parts of      *)
(* package zfs they drive: Sender.Send with resume-token validation, the   *)
(* Receiver's placeholder walk under recvParentCreationMtx, the two        *)
(* process-wide semaphores, the replication cursor, and the replication    *)
(* step of the design note on concurrent pruning.                          *)
(*                                                                         *)
(* Strings are sequences of one-character strings, dataset paths are       *)
(* sequences of such strings (DatasetPath.comps).                          *)
(***************************************************************************)
EXTENDS Integers, Sequences, FiniteSets

VARIABLES
    sproc,      \* Sender: per in-flight RPC, the position inside Sender.Send and its locals
    sendSem,    \* maxConcurrentZFSSendSemaphore: slots in use
    zvers,      \* sending side volume manager: versions of each existing filesystem
    rproc,      \* Receiver: per in-flight RPC, the position inside Receiver.Receive and its locals
    recvSem,    \* maxConcurrentZFSRecvSemaphore: slots in use
    mtx,        \* recvParentCreationMtx: the holder, or NoProc
    rfs,        \* receiving side volume manager: existing filesystems and their placeholder property
    created,    \* history: every filesystem the walk created, with the property it was created with
    cursorCall, \* zfs.ZFSSetReplicationCursor: the position inside the call in flight and its arguments
    cursorSeen, \* history: CreateTXG of the cursor the last ZFSGetReplicationCursor returned, 0 if none yet
    poolTXG,    \* sending side volume manager: the pool's last transaction group
    repl,       \* replication_step(from, to, jobid): its position, and the step's versions on both sides
    recvCmd,    \* zfs.ZFSRecv from cmd.Start on: the copier, the zfs recv process and the returned error
    encryptionCLISupport, \* zfs.encryptionCLISupport: once, supported, err; history: probes run
    encCall,    \* EncryptionCLISupported: per caller, the position inside the call and what it returned
    sendStream, \* zfs.sendStream: opErr, stdoutReader, and the zfs send process
    streamCall, \* sendStream.Read and sendStream.Close: per caller, the position inside the call and its locals
    valCall     \* zfs.ZFSSendArgs.Validate: the call, its receiver and what it returned

svars == <<sproc, sendSem, zvers>>
rvars == <<rproc, recvSem, mtx, rfs, created>>
cvars == <<cursorCall, cursorSeen, poolTXG>>
zvars == <<encryptionCLISupport, encCall, sendStream, streamCall, valCall>>
vars  == <<sproc, sendSem, zvers, rproc, recvSem, mtx, rfs, created, cursorCall, cursorSeen,
           poolTXG, repl, recvCmd, encryptionCLISupport, encCall, sendStream, streamCall,
           valCall>>

-----------------------------------------------------------------------------
(* Bounds of the model *)

\* configured value of ZREPL_ENDPOINT_MAX_CONCURRENT_SEND in the model
SendLimit == 1
\* configured value of ZREPL_ENDPOINT_MAX_CONCURRENT_RECV in the model
RecvLimit == 1

-----------------------------------------------------------------------------
(* strings *)

RECURSIVE ContainsAny(_, _)
\* strings.ContainsAny(s, chars)
ContainsAny(s, chars) ==
    IF s = <<>> THEN FALSE
    ELSE Head(s) \in chars \/ ContainsAny(Tail(s), chars)

RECURSIVE SplitAcc(_, _, _)
SplitAcc(s, sep, cur) ==
    IF s = <<>> THEN <<cur>>
    ELSE IF Head(s) = sep THEN <<cur>> \o SplitAcc(Tail(s), sep, <<>>)
    ELSE SplitAcc(Tail(s), sep, Append(cur, Head(s)))

\* strings.Split(s, sep) for a one-character separator
Split(s, sep) == SplitAcc(s, sep, <<>>)

RECURSIVE Join(_, _)
\* strings.Join(comps, sep)
Join(comps, sep) ==
    IF comps = <<>> THEN <<>>
    ELSE IF Len(comps) = 1 THEN comps[1]
    ELSE comps[1] \o <<sep>> \o Join(Tail(comps), sep)

\* strings.IndexAny(s[0:1], "@#") == 0 for a non-empty s
StartsWithAtOrHash(s) == s[1] \in {"@", "#"}

-----------------------------------------------------------------------------
(* zfs.DatasetPath *)

FORBIDDEN == {"@", "#", "|", "\t", "<", ">", "*"}

\* zfs.NewDatasetPath: [err, comps]
NewDatasetPath(s) ==
    IF s = <<>> THEN [err |-> FALSE, comps |-> <<>>]
    ELSE IF ContainsAny(s, FORBIDDEN) THEN [err |-> TRUE, comps |-> <<>>]
    ELSE LET c == Split(s, "/") IN
         IF c[Len(c)] = <<>> THEN [err |-> TRUE, comps |-> c]
         ELSE [err |-> FALSE, comps |-> c]

\* DatasetPath.ToString
ToString(p) == Join(p, "/")

\* DatasetPath.HasPrefix
HasPrefix(p, prefix) ==
    /\ Len(prefix) <= Len(p)
    /\ \A i \in 1..Len(prefix) : prefix[i] = p[i]

\* DatasetPath.Equal
Equal(p, q) ==
    /\ Len(p) = Len(q)
    /\ \A i \in 1..Len(p) : p[i] = q[i]

\* DatasetPath.Extend
Extend(p, q) == p \o q

-----------------------------------------------------------------------------
(* The sending side: names, requests, resume tokens *)

S_pa == <<"p", "/", "a">>       \* exists, passes the Sender's filter
S_pb == <<"p", "/", "b">>       \* exists, denied by the filter
S_pc == <<"p", "/", "c">>       \* does not exist, denied by the filter
S_bad == <<"p", "@">>           \* not a dataset path
V_1 == <<"@", "1">>
V_2 == <<"@", "2">>
V_x == <<"2">>                  \* a version name without @ or #

\* part_001: const ReplicationCursorBookmarkName
ReplicationCursorBookmarkName == <<"zrepl_replication_cursor">>
V_cur == <<"#">> \o ReplicationCursorBookmarkName

SendProcs == {"s1", "s2"}

\* Sender.FSFilter (configuration): the dataset paths the filter passes
FSFilterPass(dp) == dp = <<<<"p">>, <<"a">>>>

\* versions of the sending side's filesystems in the initial state
InitVersions ==
    [fs \in {S_pa, S_pb} |->
        IF fs = S_pa
        THEN {[rel |-> V_1, guid |-> 1, txg |-> 1], [rel |-> V_2, guid |-> 2, txg |-> 2]}
        ELSE {[rel |-> V_1, guid |-> 3, txg |-> 1], [rel |-> V_2, guid |-> 4, txg |-> 2]}]

Tok(kind, fs, hf, fg, ht, tg, raw, comp) ==
    [kind |-> kind, toname |-> fs, HasFromGUID |-> hf, FromGUID |-> fg,
     HasToGUID |-> ht, ToGUID |-> tg, RawOK |-> raw, CompressOK |-> comp]
\* the empty string as r.ResumeToken
NoToken == Tok("none", <<>>, FALSE, 0, FALSE, 0, FALSE, FALSE)

\* the resume tokens a peer may supply, each identified with what decoding it yields
Tokens ==
    { Tok(k, <<>>, FALSE, 0, FALSE, 0, FALSE, FALSE) :
          k \in {"decnotsupp", "parseerr", "corrupt", "othererr", "tonameerr"} }
    \cup
    { Tok("ok", fs, f[1], f[2], t[1], t[2], raw, comp) :
          fs \in {S_pa, S_pb},
          f \in {<<FALSE, 0>>, <<TRUE, 1>>, <<TRUE, 3>>},
          t \in {<<FALSE, 0>>, <<TRUE, 2>>, <<TRUE, 4>>},
          raw \in BOOLEAN, comp \in BOOLEAN }

SendReq(fs, from, to, tok, dry, enc) ==
    [op |-> "Send", fs |-> fs, from |-> from, to |-> to, token |-> tok,
     dryRun |-> dry, encrypted |-> enc]

\* pdu.SendReq values: all well-formed ones, and the malformed shapes
SendReqs ==
    { SendReq(fs, from, V_2, tok, dry, enc) :
          fs \in {S_pa, S_pb, S_pc}, from \in {<<>>, V_1, V_cur},
          tok \in Tokens \cup {NoToken}, dry \in BOOLEAN, enc \in BOOLEAN }
    \cup
    { SendReq(fs, from, to, NoToken, FALSE, FALSE) :
          fs \in {<<>>, S_bad, S_pa}, from \in {<<>>, V_1, V_x}, to \in {<<>>, V_2, V_x} }

\* requests for every filesystem name, for the specification of the Sender's
\* operations on a filesystem
AccessSendReqs ==
    { SendReq(fs, <<>>, V_2, tok, FALSE, FALSE) :
          fs \in {S_pa, S_pb, S_pc, S_bad},
          tok \in {NoToken, Tok("ok", S_pa, FALSE, 0, TRUE, 2, FALSE, FALSE),
                   Tok("ok", S_pb, FALSE, 0, TRUE, 4, FALSE, FALSE)} }

\* a small set of requests, for the specifications about the semaphores
GateSendReqs ==
    { SendReq(S_pa, <<>>, V_2, NoToken, dry, FALSE) : dry \in BOOLEAN }

NoReq == [op |-> "none"]
NoRes == [kind |-> "none"]
ErrRes(e) == [kind |-> "err", err |-> e]
NoStream == [open |-> FALSE]

\* one Sender RPC: where it is, its request, what zfs.ResumeSendSupported reported
\* (supp, "none" if it was not asked), the result of validateResumeToken (verr),
\* useResumeToken (tok), whether it obtained a guard, whether it called the volume
\* manager, what it returned
SIdle == [pc |-> "idle", req |-> NoReq, supp |-> "none", verr |-> "nil", tok |-> NoToken,
          acquired |-> FALSE, vm |-> FALSE, res |-> NoRes, stream |-> NoStream]

-----------------------------------------------------------------------------
(* util/semaphore and util/chainlock *)

\* semaphore.S.Acquire(ctx) can return a guard: fewer than limit guards are out
semaphoreAcquire(count, limit) == count < limit
\* the guards that are out after Acquire returned one
semaphoreAcquired(count) == count + 1
\* semaphore.AcquireGuard.Release: the guards that are out afterwards
guardRelease(count) == count - 1

\* chainlock.L.Lock can return: nobody holds the lock held by holder
chainlockLock(holder, nobody) == holder = nobody

-----------------------------------------------------------------------------
(* package zfs: lookups, ZFSSendArgs *)

\* zfs.validateZFSFilesystem: TRUE iff it returns an error
validateZFSFilesystem(fs) == Len(fs) < 1

\* zfsGet on fs+version: the version of that name, if the dataset exists
LookupVersion(vs, fs, version) ==
    IF fs \in DOMAIN vs THEN {v \in vs[fs] : v.rel = version} ELSE {}

\* zfs.ZFSGetGUID: [err, notexist, guid]
ZFSGetGUID(vs, fs, version) ==
    IF validateZFSFilesystem(fs) \/ Len(version) = 0 \/ ~StartsWithAtOrHash(version)
    THEN [err |-> TRUE, notexist |-> FALSE, guid |-> 0]
    ELSE LET found == LookupVersion(vs, fs, version) IN
         IF found = {} THEN [err |-> TRUE, notexist |-> TRUE, guid |-> 0]
         ELSE [err |-> FALSE, notexist |-> FALSE, guid |-> (CHOOSE v \in found : TRUE).guid]

\* zfs.ParseResumeToken: the decoded token, or the kind of failure
ParseResumeToken(tok) == tok

\* ResumeToken.ToNameSplit: [err, fs]
ToNameSplit(t) ==
    IF t.kind = "tonameerr" THEN [err |-> TRUE, fs |-> <<>>]
    ELSE [err |-> FALSE, fs |-> t.toname]

NoVersion == [nil |-> TRUE, RelName |-> <<>>, GUID |-> 0]
ArgVersion(rel, guid) == [nil |-> FALSE, RelName |-> rel, GUID |-> guid]

\* zfs.ZFSSendArgVersion.Validate: TRUE iff it returns an error
ZFSSendArgVersionValidate(vs, a, fs) ==
    IF Len(a.RelName) = 0 THEN TRUE
    ELSE IF ~StartsWithAtOrHash(a.RelName) THEN TRUE
    ELSE LET g == ZFSGetGUID(vs, fs, a.RelName) IN
         IF g.err /\ ~g.notexist THEN TRUE
         ELSE g.guid # a.GUID       \* on DatasetDoesNotExist realGUID is 0

\* validateCorrespondsToResumeToken without the comparison of rawok and compressok
\* with Encrypted
C2_validateCorrespondsToResumeToken_NoEncryptionCheck(a) ==
    IF a.ResumeToken = NoToken THEN FALSE
    ELSE LET t == ParseResumeToken(a.ResumeToken) IN
         IF t.kind \notin {"ok", "tonameerr"} THEN TRUE
         ELSE LET tokenFS == ToNameSplit(t) IN
              IF tokenFS.err THEN TRUE
              ELSE IF a.FS # tokenFS.fs THEN TRUE
              ELSE IF (~a.From.nil) # t.HasFromGUID THEN TRUE
              ELSE IF t.HasFromGUID /\ t.FromGUID # a.From.GUID THEN TRUE
              ELSE IF ~t.HasToGUID THEN TRUE
              ELSE t.ToGUID # a.To.GUID

\* zfs.ZFSSendArgs.validateCorrespondsToResumeToken: TRUE iff it returns an error
validateCorrespondsToResumeToken(a) ==
    IF a.ResumeToken = NoToken THEN FALSE
    ELSE LET t == ParseResumeToken(a.ResumeToken) IN
         IF t.kind \notin {"ok", "tonameerr"} THEN TRUE
         ELSE LET tokenFS == ToNameSplit(t) IN
              IF tokenFS.err THEN TRUE
              ELSE IF a.FS # tokenFS.fs THEN TRUE
              ELSE IF (~a.From.nil) # t.HasFromGUID THEN TRUE
              ELSE IF t.HasFromGUID /\ t.FromGUID # a.From.GUID THEN TRUE
              ELSE IF ~t.HasToGUID THEN TRUE
              ELSE IF t.ToGUID # a.To.GUID THEN TRUE
              ELSE IF a.Encrypted THEN ~(t.RawOK /\ t.CompressOK)
              ELSE t.RawOK \/ t.CompressOK

\* zfs.ZFSSendArgs.Validate: TRUE iff it returns an error.
\* encEnabled is what ZFSGetEncryptionEnabled reports: "on", "off" or "err"
ZFSSendArgsValidate(vs, a, encEnabled) ==
    LET dp == NewDatasetPath(a.FS) IN
    IF dp.err \/ Len(dp.comps) = 0 THEN TRUE
    ELSE IF a.To.nil THEN TRUE
    ELSE IF ZFSSendArgVersionValidate(vs, a.To, a.FS) THEN TRUE
    ELSE IF ~a.From.nil /\ ZFSSendArgVersionValidate(vs, a.From, a.FS) THEN TRUE
    ELSE IF encEnabled = "err" THEN TRUE
    ELSE IF a.Encrypted /\ encEnabled # "on" THEN TRUE
    ELSE validateCorrespondsToResumeToken(a)

\* zfs.ZFSSendArgs.buildCommonSendArgs: the arguments that decide what zfs send does
buildCommonSendArgs(a) ==
    IF a.ResumeToken # NoToken
    THEN [t |-> a.ResumeToken, w |-> FALSE, from |-> <<>>, to |-> <<>>]
    ELSE [t |-> NoToken, w |-> a.Encrypted,
          from |-> IF a.From.nil THEN <<>> ELSE a.FS \o a.From.RelName,
          to |-> a.FS \o a.To.RelName]

\* the zfs send process started with these arguments: which filesystem it streams
\* and whether the stream is raw (-w, or what the token of -t says)
SendStreamOf(args, fs) ==
    IF args.t # NoToken
    THEN [open |-> TRUE, fs |-> args.t.toname, raw |-> args.t.RawOK, resumed |-> TRUE]
    ELSE [open |-> TRUE, fs |-> fs, raw |-> args.w, resumed |-> FALSE]

-----------------------------------------------------------------------------
(* endpoint.Sender *)

\* filterCheckFS without the call of FSFilter.Filter
C3_filterCheckFS_NoFilter(fs) ==
    LET dp == NewDatasetPath(fs) IN
    IF dp.err THEN [err |-> "path", dp |-> <<>>]
    ELSE IF Len(dp.comps) = 0 THEN [err |-> "empty", dp |-> <<>>]
    ELSE [err |-> "ok", dp |-> dp.comps]

\* Sender.filterCheckFS: [err, dp]
filterCheckFS(fs) ==
    LET dp == NewDatasetPath(fs) IN
    IF dp.err THEN [err |-> "path", dp |-> <<>>]
    ELSE IF Len(dp.comps) = 0 THEN [err |-> "empty", dp |-> <<>>]
    ELSE IF ~FSFilterPass(dp.comps) THEN [err |-> "access", dp |-> <<>>]
    ELSE [err |-> "ok", dp |-> dp.comps]

\* Sender.Send, the checks of the request's shape: "ok" or the error
SendShape(r) ==
    IF r.fs = <<>> THEN "shape"
    ELSE IF r.to = <<>> THEN "shape"
    ELSE IF ~StartsWithAtOrHash(r.to) THEN "shape"
    ELSE IF r.from # <<>> /\ ~StartsWithAtOrHash(r.from) THEN "shape"
    ELSE "ok"

\* ResumeToken.ValidateCorrespondsToSend: TRUE iff it returns an error
ValidateCorrespondsToSend(t, fs, expHasFromGUID, expFromGUID, expToGUID) ==
    LET tokenFS == ToNameSplit(t) IN
    IF tokenFS.err THEN TRUE
    ELSE IF fs # tokenFS.fs THEN TRUE
    ELSE IF expHasFromGUID # t.HasFromGUID THEN TRUE
    ELSE IF t.HasFromGUID /\ t.FromGUID # expFromGUID THEN TRUE
    ELSE IF ~t.HasToGUID THEN TRUE
    ELSE t.ToGUID # expToGUID

\* validateResumeToken with ResumeTokenCorruptError and the other decoding errors
\* wrapped in rtNotSupported like the first two
C12_validateResumeToken_AllDecodingErrorsSoft(vs, r, supp) ==
    IF r.token = NoToken THEN "nil"
    ELSE IF supp = "err" THEN "supporterr"
    ELSE IF supp = "no" THEN "rtNotSupported"
    ELSE LET token == ParseResumeToken(r.token) IN
         IF token.kind \in {"decnotsupp", "parseerr", "corrupt", "othererr"}
         THEN "rtNotSupported"
         ELSE LET expTo == ZFSGetGUID(vs, r.fs, r.to)
                  expFrom == IF r.from # <<>> THEN ZFSGetGUID(vs, r.fs, r.from)
                             ELSE [err |-> FALSE, notexist |-> FALSE, guid |-> 0]
              IN IF expTo.err THEN "guiderr"
                 ELSE IF expFrom.err THEN "guiderr"
                 ELSE IF ValidateCorrespondsToSend(token, r.fs, r.from # <<>>,
                                                   expFrom.guid, expTo.guid)
                      THEN "rtValErr"
                      ELSE "nil"

\* Sender.Send, the closure validateResumeToken: "nil", "rtValErr", "rtNotSupported",
\* or another error. supp is what zfs.ResumeSendSupported reports: "yes", "no", "err"
validateResumeToken(vs, r, supp) ==
    IF r.token = NoToken THEN "nil"
    ELSE IF supp = "err" THEN "supporterr"
    ELSE IF supp = "no" THEN "rtNotSupported"
    ELSE LET token == ParseResumeToken(r.token) IN
         IF token.kind \in {"decnotsupp", "parseerr"} THEN "rtNotSupported"
         ELSE IF token.kind = "corrupt" THEN "corrupt"
         ELSE IF token.kind = "othererr" THEN "decodeerr"
         ELSE LET expTo == ZFSGetGUID(vs, r.fs, r.to)
                  expFrom == IF r.from # <<>> THEN ZFSGetGUID(vs, r.fs, r.from)
                             ELSE [err |-> FALSE, notexist |-> FALSE, guid |-> 0]
              IN IF expTo.err THEN "guiderr"
                 ELSE IF expFrom.err THEN "guiderr"
                 ELSE IF ValidateCorrespondsToSend(token, r.fs, r.from # <<>>,
                                                   expFrom.guid, expTo.guid)
                      THEN "rtValErr"
                      ELSE "nil"

\* the switch with case rtNotSupported falling through to case nil
C11_SendTokenSwitch_FallsThrough(verr, r) ==
    CASE verr = "rtValErr"       -> [ret |-> TRUE,  err |-> "validation", tok |-> NoToken]
      [] verr = "rtNotSupported" -> [ret |-> FALSE, err |-> "", tok |-> r.token]
      [] verr = "nil"            -> [ret |-> FALSE, err |-> "", tok |-> r.token]
      [] OTHER                   -> [ret |-> TRUE,  err |-> verr, tok |-> NoToken]

\* the switch with case rtValErr treated like case nil
C1_SendTokenSwitch_ProceedsOnMismatch(verr, r) ==
    CASE verr = "rtValErr"       -> [ret |-> FALSE, err |-> "", tok |-> r.token]
      [] verr = "rtNotSupported" -> [ret |-> FALSE, err |-> "", tok |-> NoToken]
      [] verr = "nil"            -> [ret |-> FALSE, err |-> "", tok |-> r.token]
      [] OTHER                   -> [ret |-> TRUE,  err |-> verr, tok |-> NoToken]

\* Sender.Send, the switch on validateResumeToken's result: whether Send returns
\* the error, and otherwise useResumeToken
SendTokenSwitch(verr, r) ==
    CASE verr = "rtValErr"       -> [ret |-> TRUE,  err |-> "validation", tok |-> NoToken]
      [] verr = "rtNotSupported" -> [ret |-> FALSE, err |-> "", tok |-> NoToken]
      [] verr = "nil"            -> [ret |-> FALSE, err |-> "", tok |-> r.token]
      [] OTHER                   -> [ret |-> TRUE,  err |-> verr, tok |-> NoToken]

\* the ZFSSendArgs Send hands to ZFSSendDry and ZFSSend for (r.Filesystem, r.From, r.To,
\* useResumeToken): the versions named by the request, with their local GUIDs
SendArgsOf(vs, r, useResumeToken) ==
    [FS |-> r.fs,
     From |-> IF r.from = <<>> THEN NoVersion
              ELSE ArgVersion(r.from, ZFSGetGUID(vs, r.fs, r.from).guid),
     To |-> ArgVersion(r.to, ZFSGetGUID(vs, r.fs, r.to).guid),
     Encrypted |-> r.encrypted,
     ResumeToken |-> useResumeToken]

\* the size estimate zfs send -n prints in the model
DrySize == 7

\* zfs.ZFSSendDry: [err, size]. cmd is how the zfs send -n command ends:
\* "fail", "noestimate" (it prints no size) or "estimate" (it prints a size)
ZFSSendDry(vs, a, encEnabled, cmd) ==
    IF ZFSSendArgsValidate(vs, a, encEnabled) THEN [err |-> TRUE, size |-> 0]
    ELSE IF ~a.From.nil /\ ContainsAny(a.From.RelName, {"#"}) THEN [err |-> FALSE, size |-> -1]
    ELSE IF cmd = "fail" THEN [err |-> TRUE, size |-> 0]
    ELSE [err |-> FALSE, size |-> IF cmd = "noestimate" THEN -1 ELSE DrySize]

\* zfs.ZFSSend: [err, stream]. start is whether the zfs send process could be started
\* (it cannot when ctx is done)
ZFSSend(vs, a, encEnabled, start) ==
    IF ZFSSendArgsValidate(vs, a, encEnabled) THEN [err |-> TRUE, stream |-> NoStream]
    ELSE IF ~start THEN [err |-> TRUE, stream |-> NoStream]
    ELSE [err |-> FALSE, stream |-> SendStreamOf(buildCommonSendArgs(a), a.FS)]

\* Send with guard.Release() on the successful return only
C9_SendReturn_ReleasesOnSuccessOnly(p, res, stream, held) ==
    /\ sproc' = [sproc EXCEPT ![p].pc = IF stream.open THEN "streaming" ELSE "done",
                              ![p].res = res, ![p].stream = stream,
                              ![p].vm = sproc[p].vm \/ held]
    /\ sendSem' = IF held /\ res.kind = "ok" THEN guardRelease(sendSem) ELSE sendSem

\* Sender.Send returns: the deferred guard.Release() gives the slot back
SendReturn(p, res, stream, held) ==
    /\ sproc' = [sproc EXCEPT ![p].pc = IF stream.open THEN "streaming" ELSE "done",
                              ![p].res = res, ![p].stream = stream,
                              ![p].vm = sproc[p].vm \/ held]
    /\ sendSem' = IF held THEN guardRelease(sendSem) ELSE sendSem

\* Sender.Send up to the semaphore: shape, filter, resume token
SendCall(p, r, supp) ==
    /\ sproc[p].pc = "idle"
    /\ LET shape == SendShape(r)
           fc == filterCheckFS(r.fs)
           verr == validateResumeToken(zvers, r, supp)
           sw == SendTokenSwitch(verr, r)
           start == [SIdle EXCEPT !.req = r]
           asked == IF r.token = NoToken THEN "none" ELSE supp
       IN IF shape # "ok"
          THEN sproc' = [sproc EXCEPT ![p] = [start EXCEPT !.pc = "done", !.res = ErrRes(shape)]]
          ELSE IF fc.err # "ok"
          THEN sproc' = [sproc EXCEPT ![p] = [start EXCEPT !.pc = "done", !.res = ErrRes(fc.err)]]
          ELSE IF sw.ret
          THEN sproc' = [sproc EXCEPT ![p] = [start EXCEPT !.pc = "done", !.res = ErrRes(sw.err),
                                                           !.supp = asked,
                                                           !.verr = verr, !.vm = TRUE]]
          ELSE sproc' = [sproc EXCEPT ![p] = [start EXCEPT !.pc = "acquire", !.tok = sw.tok,
                                                           !.supp = asked,
                                                           !.verr = verr,
                                                           !.vm = (r.token # NoToken)]]
    /\ UNCHANGED <<sendSem, zvers, rvars, cvars, repl, recvCmd, zvars>>

\* maxConcurrentZFSSendSemaphore.Acquire(ctx) returns a guard
SendAcquire(p) ==
    /\ sproc[p].pc = "acquire"
    /\ semaphoreAcquire(sendSem, SendLimit)
    /\ sendSem' = semaphoreAcquired(sendSem)
    /\ sproc' = [sproc EXCEPT ![p].pc = "holding", ![p].acquired = TRUE]
    /\ UNCHANGED <<zvers, rvars, cvars, repl, recvCmd, zvars>>

\* maxConcurrentZFSSendSemaphore.Acquire(ctx) fails: ctx is cancelled while Send waits
SendAcquireCancelled(p) ==
    /\ sproc[p].pc = "acquire"
    /\ SendReturn(p, ErrRes("cancelled"), NoStream, FALSE)
    /\ UNCHANGED <<zvers, rvars, cvars, repl, recvCmd, zvars>>

\* Sender.Send from ZFSSendDry to its return
SendRun(p, encEnabled, cmd, start) ==
    /\ sproc[p].pc = "holding"
    /\ LET r == sproc[p].req
           a == SendArgsOf(zvers, r, sproc[p].tok)
           si == ZFSSendDry(zvers, a, encEnabled, cmd)
           res == [kind |-> "ok", ExpectedSize |-> IF si.size # -1 THEN si.size ELSE 0,
                   UsedResumeToken |-> sproc[p].tok # NoToken]
           snd == ZFSSend(zvers, a, encEnabled, start)
       IN IF si.err THEN SendReturn(p, ErrRes("dry"), NoStream, TRUE)
          ELSE IF r.dryRun THEN SendReturn(p, res, NoStream, TRUE)
          ELSE IF snd.err THEN SendReturn(p, ErrRes("send"), NoStream, TRUE)
          ELSE SendReturn(p, res, snd.stream, TRUE)
    /\ UNCHANGED <<zvers, rvars, cvars, repl, recvCmd, zvars>>

\* the caller closes the StreamCopier Send returned
StreamClose(p) ==
    /\ sproc[p].pc = "streaming"
    /\ sproc' = [sproc EXCEPT ![p].pc = "done", ![p].stream.open = FALSE]
    /\ UNCHANGED <<sendSem, zvers, rvars, cvars, repl, recvCmd, zvars>>

\* the RPC layer has delivered the result; the handler is gone
SendFinish(p) ==
    /\ sproc[p].pc = "done"
    /\ sproc' = [sproc EXCEPT ![p] = SIdle]
    /\ UNCHANGED <<sendSem, zvers, rvars, cvars, repl, recvCmd, zvars>>

-----------------------------------------------------------------------------
(* endpoint.Sender: ListFilesystemVersions, DestroySnapshots, ReplicationCursor *)

\* pdu.FilesystemVersion values of a DestroySnapshots request
PduVersions == {[Type |-> t, Name |-> n] : t \in {"Snapshot", "Bookmark"}, n \in {<<"1">>, <<"2">>}}
DestroyLists == {<<>>} \cup {<<v>> : v \in PduVersions}
                \cup {<<v, w>> : v \in {x \in PduVersions : x.Name = <<"1">>},
                                w \in {x \in PduVersions : x.Name = <<"2">>}}

SenderFSNames == {S_pa, S_pb, S_pc, <<>>}

\* an operation that ran to its end in one step
SDone(r, res, vm) == [SIdle EXCEPT !.pc = "done", !.req = r, !.res = res, !.vm = vm]

\* zfs.ZFSListFilesystemVersions: [err, versions]
ZFSListFilesystemVersions(vs, fs) ==
    IF fs \in DOMAIN vs THEN [err |-> FALSE, versions |-> vs[fs]]
    ELSE [err |-> TRUE, versions |-> {}]

\* Sender.ListFilesystemVersions
SenderListFilesystemVersions(p, fs) ==
    /\ sproc[p].pc = "idle"
    /\ LET r == [op |-> "ListFilesystemVersions", fs |-> fs]
           lp == filterCheckFS(fs)
           fsvs == ZFSListFilesystemVersions(zvers, ToString(lp.dp))
       IN sproc' = [sproc EXCEPT ![p] =
              IF lp.err # "ok" THEN SDone(r, ErrRes(lp.err), FALSE)
              ELSE IF fsvs.err THEN SDone(r, ErrRes("list"), TRUE)
              ELSE SDone(r, [kind |-> "ok", Versions |-> fsvs.versions], TRUE)]
    /\ UNCHANGED <<sendSem, zvers, rvars, cvars, repl, recvCmd, zvars>>

\* the *error left in a DestroySnapOp's ErrOut
NoDestroyErr == [kind |-> "nil", Reason |-> <<>>]
\* the reason zfs destroy prints for a snapshot it cannot destroy
ReasonBusy == "dataset is busy"

\* zfs.ZFSDestroyFilesystemVersions for the snapshots named: those that exist and are
\* not in undestroyable are destroyed; an undestroyable one leaves the parsed
\* DestroySnapshotsError with its reason, one that does not exist the unparsed error
\* of zfs destroy. [vs, errs]
ZFSDestroyFilesystemVersions(vs, fs, names, undestroyable) ==
    LET exists(n) == fs \in DOMAIN vs /\ LookupVersion(vs, fs, <<"@">> \o n) # {}
        ok(n) == exists(n) /\ n \notin undestroyable
        gone == {<<"@">> \o names[i] : i \in {j \in 1..Len(names) : ok(names[j])}}
    IN [vs |-> [f \in DOMAIN vs |-> IF f = fs THEN {v \in vs[f] : v.rel \notin gone} ELSE vs[f]],
        errs |-> [i \in 1..Len(names) |->
                    IF ok(names[i]) THEN NoDestroyErr
                    ELSE IF exists(names[i])
                    THEN [kind |-> "DestroySnapshotsError", Reason |-> <<ReasonBusy>>]
                    ELSE [kind |-> "ZFSError", Reason |-> <<>>]]]

\* only a parsed error becomes an error text
C24_DestroyErrorText_OnlyParsed(e) ==
    IF e.kind = "DestroySnapshotsError" /\ Len(e.Reason) = 1 THEN e.Reason[1] ELSE ""

\* doDestroySnapshots, the loop after the batch: the text in ress[i].Error
DestroyErrorText(e) ==
    IF e.kind = "nil" THEN ""
    ELSE IF e.kind = "DestroySnapshotsError" /\ Len(e.Reason) = 1 THEN e.Reason[1]
    ELSE "zfs destroy failed"

\* destroys the snapshots in front of the first item that is not a snapshot
C23_doDestroySnapshots_ChecksWhileDestroying(vs, lp, snaps, undestroyable) ==
    LET bad == {i \in 1..Len(snaps) : snaps[i].Type # "Snapshot"}
        first == IF bad = {} THEN Len(snaps) + 1 ELSE CHOOSE i \in bad : \A j \in bad : i <= j
        d == ZFSDestroyFilesystemVersions(vs, ToString(lp),
                 [i \in 1..(first - 1) |-> snaps[i].Name], undestroyable)
    IN IF bad # {} THEN [err |-> "notsnapshot", vs |-> d.vs, Results |-> <<>>]
       ELSE [err |-> "ok", vs |-> d.vs,
             Results |-> [i \in 1..Len(snaps) |->
                            [Snapshot |-> snaps[i], Error |-> DestroyErrorText(d.errs[i])]]]

\* endpoint.doDestroySnapshots: [err, vs, Results]
doDestroySnapshots(vs, lp, snaps, undestroyable) ==
    IF \E i \in 1..Len(snaps) : snaps[i].Type # "Snapshot"
    THEN [err |-> "notsnapshot", vs |-> vs, Results |-> <<>>]
    ELSE LET d == ZFSDestroyFilesystemVersions(vs, ToString(lp),
                      [i \in 1..Len(snaps) |-> snaps[i].Name], undestroyable)
         IN [err |-> "ok", vs |-> d.vs,
             Results |-> [i \in 1..Len(snaps) |->
                            [Snapshot |-> snaps[i], Error |-> DestroyErrorText(d.errs[i])]]]

\* Sender.DestroySnapshots
SenderDestroySnapshots(p, fs, snaps, undestroyable) ==
    /\ sproc[p].pc = "idle"
    /\ LET r == [op |-> "DestroySnapshots", fs |-> fs, snaps |-> snaps]
           dp == filterCheckFS(fs)
           d == doDestroySnapshots(zvers, dp.dp, snaps, undestroyable)
       IN IF dp.err # "ok"
          THEN sproc' = [sproc EXCEPT ![p] = SDone(r, ErrRes(dp.err), FALSE)] /\ UNCHANGED zvers
          ELSE IF d.err # "ok"
          THEN sproc' = [sproc EXCEPT ![p] = SDone(r, ErrRes(d.err), FALSE)] /\ zvers' = d.vs
          ELSE /\ sproc' = [sproc EXCEPT ![p] = SDone(r, [kind |-> "ok", Results |-> d.Results], TRUE)]
               /\ zvers' = d.vs
    /\ UNCHANGED <<sendSem, rvars, cvars, repl, recvCmd, zvars>>

\* part_001 ZFSGetReplicationCursor: [err, nil, guid]
ZFSGetReplicationCursor(vs, fs) ==
    LET l == ZFSListFilesystemVersions(vs, fs)
        c == {v \in l.versions : v.rel = V_cur}
    IN IF l.err THEN [err |-> TRUE, nil |-> TRUE, guid |-> 0]
       ELSE IF c = {} THEN [err |-> FALSE, nil |-> TRUE, guid |-> 0]
       ELSE [err |-> FALSE, nil |-> FALSE, guid |-> (CHOOSE v \in c : TRUE).guid]

\* zfs.ZFSGetCreateTXGAndGuid: [err, notexist, CreateTXG, Guid]
ZFSGetCreateTXGAndGuid(vs, fs, rel) ==
    LET found == LookupVersion(vs, fs, rel) IN
    IF found = {} THEN [err |-> TRUE, notexist |-> TRUE, CreateTXG |-> 0, Guid |-> 0]
    ELSE LET v == CHOOSE v \in found : TRUE
         IN [err |-> FALSE, notexist |-> FALSE, CreateTXG |-> v.txg, Guid |-> v.guid]

\* zfs.ZFSDestroy of the version rel of fs
ZFSDestroyVersion(vs, fs, rel) ==
    [f \in DOMAIN vs |-> IF f = fs THEN {v \in vs[f] : v.rel # rel} ELSE vs[f]]

\* zfs.ZFSBookmark (zfs bookmark fs@snapshot fs#bookmark): [err, vs]. The snapshot is
\* named, not identified by GUID: the bookmark gets the guid and createtxg of the
\* snapshot that has the name when the command runs. cmdOk is whether the command
\* succeeds when the snapshot exists and the bookmark does not
ZFSBookmark(vs, fs, snapshot, bookmark, cmdOk) ==
    LET snap == LookupVersion(vs, fs, <<"@">> \o snapshot)
        rel == <<"#">> \o bookmark
    IN IF ~cmdOk \/ snap = {} \/ LookupVersion(vs, fs, rel) # {}
       THEN [err |-> TRUE, vs |-> vs]
       ELSE LET sv == CHOOSE v \in snap : TRUE
            IN [err |-> FALSE,
                vs |-> [f \in DOMAIN vs |->
                          IF f = fs THEN vs[f] \cup {[rel |-> rel, guid |-> sv.guid, txg |-> sv.txg]}
                          ELSE vs[f]]]

\* ZFSSetReplicationCursor without the comparison of the CreateTXGs
C16_SetCursorCheck_NoTXGComparison(vs, fs, snapname, expGuid) ==
    LET snapProps == ZFSGetCreateTXGAndGuid(vs, fs, <<"@">> \o snapname)
        bookmarkProps == ZFSGetCreateTXGAndGuid(vs, fs, V_cur)
    IN IF Len(fs) = 0 THEN "empty"
       ELSE IF Len(snapname) = 0 THEN "empty"
       ELSE IF snapProps.err THEN "snapprops"
       ELSE IF expGuid # snapProps.Guid THEN "guid"
       ELSE IF bookmarkProps.err THEN "bookmark"
       ELSE IF bookmarkProps.Guid = snapProps.Guid THEN "same"
       ELSE "destroy"

\* part_001 ZFSSetReplicationCursor up to the first zfs command that changes
\* something: the error it returns, "same" when it returns nil because the cursor is
\* at the snapshot already, "destroy" when it goes on to destroy the old cursor,
\* "bookmark" when there is no cursor and it goes on to ZFSBookmark
SetCursorCheck(vs, fs, snapname, expGuid) ==
    LET snapProps == ZFSGetCreateTXGAndGuid(vs, fs, <<"@">> \o snapname)
        bookmarkProps == ZFSGetCreateTXGAndGuid(vs, fs, V_cur)
    IN IF Len(fs) = 0 THEN "empty"
       ELSE IF Len(snapname) = 0 THEN "empty"
       ELSE IF snapProps.err THEN "snapprops"
       ELSE IF expGuid # snapProps.Guid THEN "guid"
       ELSE IF bookmarkProps.err THEN "bookmark"
       ELSE IF snapProps.CreateTXG < bookmarkProps.CreateTXG THEN "setback"
       ELSE IF bookmarkProps.Guid = snapProps.Guid THEN "same"
       ELSE "destroy"

\* part_001 ZFSSetReplicationCursor run without interruption: [err, vs]. destroyOk
\* and bookmarkOk are whether ZFSDestroy of the old cursor and ZFSBookmark succeed
ZFSSetReplicationCursor(vs, fs, snapname, expGuid, destroyOk, bookmarkOk) ==
    LET c == SetCursorCheck(vs, fs, snapname, expGuid)
        without == IF c = "destroy" THEN ZFSDestroyVersion(vs, fs, V_cur) ELSE vs
        b == ZFSBookmark(without, fs, snapname, ReplicationCursorBookmarkName, bookmarkOk)
    IN IF c \notin {"same", "destroy", "bookmark"} THEN [err |-> c, vs |-> vs]
       ELSE IF c = "same" THEN [err |-> "ok", vs |-> vs]
       ELSE IF c = "destroy" /\ ~destroyOk THEN [err |-> "destroy", vs |-> vs]
       ELSE IF b.err THEN [err |-> "bookmark", vs |-> without]
       ELSE [err |-> "ok", vs |-> b.vs]

\* the ReplicationCursor requests. ExpectGuid is the GUID of the snapshot the caller
\* has replicated and wants the cursor at; pdu.ReplicationCursorReq_Set as read by
\* Sender.ReplicationCursor carries the snapshot's name only
CursorOps ==
    {[op |-> "Get", Snapshot |-> <<>>, ExpectGuid |-> 0],
     [op |-> "unknown", Snapshot |-> <<>>, ExpectGuid |-> 0]}
    \cup {[op |-> "Set", Snapshot |-> n, ExpectGuid |-> g] :
             n \in {<<"1">>, <<"2">>, <<"9">>}, g \in {1, 2}}

\* Sender.ReplicationCursor
SenderReplicationCursor(p, fs, op, destroyOk, bookmarkOk) ==
    /\ sproc[p].pc = "idle"
    /\ LET r == [op |-> "ReplicationCursor", fs |-> fs, Op |-> op]
           dp == filterCheckFS(fs)
           lp == ToString(dp.dp)
           cursor == ZFSGetReplicationCursor(zvers, lp)
           snapGuid == ZFSGetCreateTXGAndGuid(zvers, lp, <<"@">> \o op.Snapshot).Guid
           set == ZFSSetReplicationCursor(zvers, lp, op.Snapshot, snapGuid, destroyOk, bookmarkOk)
       IN IF dp.err # "ok"
          THEN sproc' = [sproc EXCEPT ![p] = SDone(r, ErrRes(dp.err), FALSE)] /\ UNCHANGED zvers
          ELSE IF op.op = "Get"
          THEN /\ sproc' = [sproc EXCEPT ![p] =
                      IF cursor.err THEN SDone(r, ErrRes("list"), TRUE)
                      ELSE IF cursor.nil THEN SDone(r, [kind |-> "ok", Notexist |-> TRUE, Guid |-> 0], TRUE)
                      ELSE SDone(r, [kind |-> "ok", Notexist |-> FALSE, Guid |-> cursor.guid], TRUE)]
               /\ UNCHANGED zvers
          ELSE IF op.op = "Set"
          THEN /\ sproc' = [sproc EXCEPT ![p] =
                      IF set.err # "ok" THEN SDone(r, ErrRes(set.err), TRUE)
                      ELSE SDone(r, [kind |-> "ok", Notexist |-> FALSE, Guid |-> snapGuid], TRUE)]
               /\ zvers' = set.vs
          ELSE sproc' = [sproc EXCEPT ![p] = SDone(r, ErrRes("unknownop"), FALSE)] /\ UNCHANGED zvers
    /\ UNCHANGED <<sendSem, rvars, cvars, repl, recvCmd, zvars>>

-----------------------------------------------------------------------------
(* zfs.ZFSSetReplicationCursor and ZFSGetReplicationCursor, command by command, *)
(* with snapshots destroyed and created by others between the commands          *)

V_3 == <<"@", "3">>

\* the pool's transaction group counter is not run past MaxTXG
MaxTXG == 5

\* three snapshots of p/a, no cursor; a version created in transaction group t has
\* the guid GuidOf(t)
GuidOf(t) == 10 + t
CursorVersions ==
    [fs \in {S_pa} |-> {[rel |-> V_1, guid |-> GuidOf(1), txg |-> 1],
                        [rel |-> V_2, guid |-> GuidOf(2), txg |-> 2],
                        [rel |-> V_3, guid |-> GuidOf(3), txg |-> 3]}]

CursorIdle == [pc |-> "idle", fs |-> <<>>, snapname |-> <<>>, expGuid |-> 0, err |-> "none"]

\* ZFSSetReplicationCursor returns err
CursorDone(c, err) == [c EXCEPT !.pc = "done", !.err = err]

\* ZFSSetReplicationCursor(fs, snapname, expGuid) up to the return or the first
\* command that changes something
CursorSetCall(fs, snapname, expGuid) ==
    /\ cursorCall.pc = "idle"
    /\ LET c == SetCursorCheck(zvers, fs, snapname, expGuid)
           call == [CursorIdle EXCEPT !.fs = fs, !.snapname = snapname, !.expGuid = expGuid]
       IN cursorCall' = IF c \in {"destroy", "bookmark"} THEN [call EXCEPT !.pc = c]
                        ELSE IF c = "same" THEN CursorDone(call, "ok")
                        ELSE CursorDone(call, c)
    /\ UNCHANGED <<cursorSeen, poolTXG, svars, rvars, repl, recvCmd, zvars>>

\* ZFSDestroy(bookmarkPath) of the old cursor
CursorSetDestroy(destroyOk) ==
    /\ cursorCall.pc = "destroy"
    /\ IF destroyOk
       THEN /\ zvers' = ZFSDestroyVersion(zvers, cursorCall.fs, V_cur)
            /\ cursorCall' = [cursorCall EXCEPT !.pc = "bookmark"]
       ELSE /\ cursorCall' = CursorDone(cursorCall, "destroy")
            /\ UNCHANGED zvers
    /\ UNCHANGED <<cursorSeen, poolTXG, sproc, sendSem, rvars, repl, recvCmd, zvars>>

\* ZFSBookmark(fs, snapname, ReplicationCursorBookmarkName) and the return
CursorSetBookmark(bookmarkOk) ==
    /\ cursorCall.pc = "bookmark"
    /\ LET b == ZFSBookmark(zvers, cursorCall.fs, cursorCall.snapname,
                            ReplicationCursorBookmarkName, bookmarkOk)
       IN /\ zvers' = b.vs
          /\ cursorCall' = CursorDone(cursorCall, IF b.err THEN "bookmark" ELSE "ok")
    /\ UNCHANGED <<cursorSeen, poolTXG, sproc, sendSem, rvars, repl, recvCmd, zvars>>

\* the caller has the result
CursorSetReturn ==
    /\ cursorCall.pc = "done"
    /\ cursorCall' = CursorIdle
    /\ UNCHANGED <<cursorSeen, poolTXG, svars, rvars, repl, recvCmd, zvars>>

\* part_001 ZFSGetReplicationCursor(fs): the caller sees the cursor's CreateTXG
CursorGet(fs) ==
    /\ LET l == ZFSListFilesystemVersions(zvers, fs)
           c == {v \in l.versions : v.rel = V_cur}
       IN cursorSeen' = IF l.err \/ c = {} THEN cursorSeen ELSE (CHOOSE v \in c : TRUE).txg
    /\ UNCHANGED <<cursorCall, poolTXG, svars, rvars, repl, recvCmd, zvars>>

\* somebody else destroys the snapshot rel of fs
ExternalDestroySnapshot(fs, rel) ==
    /\ LookupVersion(zvers, fs, rel) # {}
    /\ zvers' = ZFSDestroyVersion(zvers, fs, rel)
    /\ UNCHANGED <<cvars, repl, recvCmd, zvars, sproc, sendSem, rvars>>

\* somebody else takes the snapshot rel of fs: it is created in a new transaction
\* group and has a new guid
ExternalSnapshot(fs, rel) ==
    /\ fs \in DOMAIN zvers
    /\ LookupVersion(zvers, fs, rel) = {}
    /\ poolTXG < MaxTXG
    /\ poolTXG' = poolTXG + 1
    /\ zvers' = [zvers EXCEPT ![fs] =
                    @ \cup {[rel |-> rel, guid |-> GuidOf(poolTXG + 1), txg |-> poolTXG + 1]}]
    /\ UNCHANGED <<cursorCall, cursorSeen, sproc, sendSem, rvars, repl, recvCmd, zvars>>

-----------------------------------------------------------------------------
(* replication_step(from, to, jobid) of the design note on transaction-safe  *)
(* replication steps, with pruning by others on both sides                   *)

\* the hold tags the note uses: zrepl_${jobid} and zrepl_J_${jobid}
TagJob == "zrepl_jobid"
TagJJob == "zrepl_J_jobid"

\* a retry follows a network failure at most MaxAttempts times
MaxAttempts == 2

\* what `from` is on the sending side: a snapshot, a replication cursor bookmark of
\* the form #zrepl_replication_cursor_G_<guid>_J_<jobid>, or another bookmark
FromKinds == {"snapshot", "cursor", "bookmark"}

Version(exists) == [exists |-> exists, holds |-> {}]

\* zfs hold as it is: an error if the snapshot has a hold with the tag already
C22_IdempotentHold_FailsOnExistingHold(v, tag) ==
    IF ~v.exists \/ tag \in v.holds THEN [err |-> TRUE, v |-> v]
    ELSE [err |-> FALSE, v |-> [v EXCEPT !.holds = @ \cup {tag}]]

\* idempotent_hold(s, tag): like zfs hold, no error if the hold exists; a hold on a
\* snapshot that does not exist fails. [err, v]
IdempotentHold(v, tag) ==
    IF ~v.exists THEN [err |-> TRUE, v |-> v]
    ELSE [err |-> FALSE, v |-> [v EXCEPT !.holds = @ \cup {tag}]]

\* idempotent_release(s, tag)
IdempotentRelease(v, tag) == [v EXCEPT !.holds = @ \ {tag}]

\* zfs destroy of a snapshot by a pruning tool succeeds unless the snapshot is held
Destroyable(v) == v.exists /\ v.holds = {}

\* no step
ReplIdle ==
    [pc |-> "none", fromKind |-> "snapshot", sFrom |-> Version(FALSE), sTo |-> Version(FALSE),
     rFrom |-> Version(FALSE), rTo |-> Version(FALSE), sToCursor |-> FALSE,
     prepared |-> FALSE, attempts |-> 0, refused |-> FALSE]

\* the step is planned: from and to exist on the sending side, from on the
\* receiving side
ReplStart(kind) ==
    [ReplIdle EXCEPT !.pc = "prepareSend", !.fromKind = kind, !.sFrom = Version(TRUE),
                     !.sTo = Version(TRUE), !.rFrom = Version(TRUE)]

\* Prepare Send-side without the hold of a snapshot `from`
C20_PrepareSend_NoHoldOfFrom ==
    /\ repl.pc = "prepareSend"
    /\ LET to == IdempotentHold(repl.sTo, TagJob)
       IN repl' = IF to.err \/ ~repl.sFrom.exists \/ repl.fromKind = "bookmark"
                  THEN [repl EXCEPT !.pc = "error", !.sTo = to.v]
                  ELSE [repl EXCEPT !.pc = "prepareRecv", !.sTo = to.v]
    /\ UNCHANGED <<svars, rvars, cvars, recvCmd, zvars>>

\* Prepare Send-side: hold `to`; hold `from` if it is a snapshot, check it if it is
\* a replication cursor, error out if it is another bookmark
PrepareSend ==
    /\ repl.pc = "prepareSend"
    /\ LET to == IdempotentHold(repl.sTo, TagJob)
           from == IdempotentHold(repl.sFrom, TagJob)
       IN repl' =
            IF to.err THEN [repl EXCEPT !.pc = "error"]
            ELSE IF repl.fromKind = "snapshot"
                 THEN IF from.err THEN [repl EXCEPT !.pc = "error", !.sTo = to.v]
                      ELSE [repl EXCEPT !.pc = "prepareRecv", !.sTo = to.v, !.sFrom = from.v]
            ELSE IF repl.fromKind = "cursor" /\ repl.sFrom.exists
                 THEN [repl EXCEPT !.pc = "prepareRecv", !.sTo = to.v]
            ELSE [repl EXCEPT !.pc = "error", !.sTo = to.v]
    /\ UNCHANGED <<svars, rvars, cvars, recvCmd, zvars>>

\* Prepare Recv-side: hold `from`
PrepareRecv ==
    /\ repl.pc = "prepareRecv"
    /\ LET from == IdempotentHold(repl.rFrom, TagJJob)
       IN repl' = IF from.err THEN [repl EXCEPT !.pc = "error"]
                  ELSE [repl EXCEPT !.pc = "prepared", !.rFrom = from.v, !.prepared = TRUE]
    /\ UNCHANGED <<svars, rvars, cvars, recvCmd, zvars>>

\* Attempt the replication step: the stream is being sent and received
AttemptStart ==
    /\ repl.pc = "prepared"
    /\ repl' = [repl EXCEPT !.pc = "sending"]
    /\ UNCHANGED <<svars, rvars, cvars, recvCmd, zvars>>

\* the receiving side has received `to`
AttemptReceived ==
    /\ repl.pc = "sending"
    /\ repl' = [repl EXCEPT !.pc = "received", !.rTo = [repl.rTo EXCEPT !.exists = TRUE]]
    /\ UNCHANGED <<svars, rvars, cvars, recvCmd, zvars>>

\* network failure before the replication starts, during it, or at the end of the
\* transmission: the next attempt retries the step from the start
NetworkFailure ==
    /\ repl.pc \in {"prepareRecv", "prepared", "sending", "received"}
    /\ repl.attempts < MaxAttempts
    /\ repl' = [repl EXCEPT !.pc = "prepareSend", !.attempts = @ + 1]
    /\ UNCHANGED <<svars, rvars, cvars, recvCmd, zvars>>

\* the receiver has explicitly confirmed that the receive has been completed
ReceiverConfirms ==
    /\ repl.pc = "received"
    /\ repl' = [repl EXCEPT !.pc = "confirmed"]
    /\ UNCHANGED <<svars, rvars, cvars, recvCmd, zvars>>

\* Post-actions Recv-side: hold `to` (if it was pruned in the meantime the step is
\* retried), release `from` with the tag zrepl_${jobid}
PostActionsRecv ==
    /\ repl.pc = "confirmed"
    /\ LET to == IdempotentHold(repl.rTo, TagJob)
       IN repl' = IF to.err
                  THEN [repl EXCEPT !.pc = IF repl.attempts < MaxAttempts
                                           THEN "prepareSend" ELSE "stalled",
                                    !.attempts = IF @ < MaxAttempts THEN @ + 1 ELSE @]
                  ELSE [repl EXCEPT !.pc = "postSend", !.rTo = to.v,
                                    !.rFrom = IdempotentRelease(repl.rFrom, TagJob)]
    /\ UNCHANGED <<svars, rvars, cvars, recvCmd, zvars>>

\* Post-actions Send-side: cursor-bookmark `to`, destroy the old cursor-bookmark of
\* `from`, release a snapshot `from` with the tag zrepl_J_${jobid}
PostActionsSend ==
    /\ repl.pc = "postSend"
    /\ repl' = [repl EXCEPT !.pc = "done", !.sToCursor = TRUE,
                            !.sFrom = IF repl.fromKind = "snapshot"
                                      THEN IdempotentRelease(repl.sFrom, TagJJob)
                                      ELSE [@ EXCEPT !.exists = FALSE]]
    /\ UNCHANGED <<svars, rvars, cvars, recvCmd, zvars>>

\* the versions of the step a pruning tool may try to destroy: the snapshots, and a
\* bookmark `from` that is not a replication cursor (externally managed). `to` on
\* the receiving side cannot be destroyed while it is being received
Prunable(which) ==
    CASE which = "sFrom" -> repl.fromKind \in {"snapshot", "bookmark"}
      [] which = "rTo"   -> repl.pc # "sending"
      [] OTHER           -> TRUE

\* a pruning tool destroys a version of the step, or its zfs destroy is refused
\* because the version is held
ExternalPrune(which) ==
    /\ repl.pc \notin {"none", "done", "error", "stalled"}
    /\ Prunable(which)
    /\ repl[which].exists
    /\ repl' = IF Destroyable(repl[which])
               THEN [repl EXCEPT ![which] = [@ EXCEPT !.exists = FALSE]]
               ELSE [repl EXCEPT !.refused = TRUE]
    /\ UNCHANGED <<svars, rvars, cvars, recvCmd, zvars>>

-----------------------------------------------------------------------------
(* endpoint.Receiver: configuration, client root, subroot *)

\* Receiver.rootWithoutClientComponent (configuration): the dataset t/r
rootWithoutClientComponent == <<<<"t">>, <<"r">>>>
\* Receiver.appendClientIdentity (configuration)
appendClientIdentity == TRUE

RecvProcs == {"r1", "r2"}
NoProc == "none"

\* client identities the RPC layer puts into the context (validated by TestClientIdentity)
ClientIdentities == {<<"c">>, <<"d">>}

RecvReq(fs, clear) == [op |-> "Receive", fs |-> fs, ClearResumeToken |-> clear]
\* pdu.ReceiveReq values
RecvReqs == {RecvReq(fs, clear) :
                fs \in {<<"a">>, <<"a", "/", "b">>, <<>>, <<"a", "/">>}, clear \in BOOLEAN}
\* requests of concurrent Receives: a target and a target below it
ConcRecvReqs == {RecvReq(fs, FALSE) : fs \in {<<"a">>, <<"a", "/", "b">>}}
\* a small set of requests, for the specifications about the semaphores
GateRecvReqs == {RecvReq(<<"a">>, FALSE)}

RECURSIVE CleanComps(_, _)
CleanComps(comps, stack) ==
    IF comps = <<>> THEN stack
    ELSE LET c == Head(comps) IN
         IF c = <<>> \/ c = <<".">> THEN CleanComps(Tail(comps), stack)
         ELSE IF c = <<".", ".">>
              THEN IF stack # <<>> /\ stack[Len(stack)] # <<".", ".">>
                   THEN CleanComps(Tail(comps), SubSeq(stack, 1, Len(stack) - 1))
                   ELSE CleanComps(Tail(comps), Append(stack, c))
         ELSE CleanComps(Tail(comps), Append(stack, c))

\* path.Join(a, b) for a non-empty relative path a: path.Clean of a + "/" + b
PathJoin(a, b) ==
    LET joined == IF b = <<>> THEN a ELSE a \o <<"/">> \o b
        cleaned == CleanComps(Split(joined, "/"), <<>>)
    IN IF cleaned = <<>> THEN <<".">> ELSE Join(cleaned, "/")

\* endpoint.clientRoot: [err, dp]
clientRoot(rootFS, clientIdentity) ==
    LET clientRootStr == PathJoin(ToString(rootFS), clientIdentity)
        cr == NewDatasetPath(clientRootStr)
    IN IF cr.err THEN [err |-> TRUE, dp |-> <<>>]
       ELSE IF Len(rootFS) + 1 # Len(cr.comps) THEN [err |-> TRUE, dp |-> <<>>]
       ELSE [err |-> FALSE, dp |-> cr.comps]

\* endpoint.TestClientIdentity: TRUE iff it returns an error
TestClientIdentity(rootFS, clientIdentity) == clientRoot(rootFS, clientIdentity).err

\* identities a peer may present in the handshake: "c", "", "a/b", "a/", "a/../b",
\* "../x/y"
PeerIdentities ==
    {<<"c">>, <<>>, <<"a", "/", "b">>, <<"a", "/">>,
     <<"a", "/", ".", ".", "/", "b">>, <<".", ".", "/", "x", "/", "y">>}

\* Receiver.clientRootFromCtx, for an identity that was validated
clientRootFromCtx(clientIdentity) ==
    IF ~appendClientIdentity THEN rootWithoutClientComponent
    ELSE clientRoot(rootWithoutClientComponent, clientIdentity).dp

\* subroot.Filter
subrootFilter(localRoot, p) == HasPrefix(p, localRoot) /\ ~Equal(p, localRoot)

\* subroot.MapToLocal: [err, dp]
MapToLocal(localRoot, fs) ==
    LET p == NewDatasetPath(fs) IN
    IF p.err THEN [err |-> TRUE, dp |-> <<>>]
    ELSE IF Len(p.comps) = 0 THEN [err |-> TRUE, dp |-> <<>>]
    ELSE [err |-> FALSE, dp |-> Extend(localRoot, p.comps)]

-----------------------------------------------------------------------------
(* the receiving side's volume manager *)

\* the hierarchies the receiving side may start from: nothing imported, the pool
\* without root_fs, the pool with root_fs
InitHierarchies ==
    { [p \in ps |-> [placeholder |-> FALSE, resume |-> FALSE, received |-> FALSE]] :
          ps \in { {}, {<<<<"t">>>>}, {<<<<"t">>>>, rootWithoutClientComponent} } }

\* zfs.ZFSGetFilesystemPlaceholderState
ZFSGetFilesystemPlaceholderState(fss, p) ==
    IF p \in DOMAIN fss THEN [FSExists |-> TRUE, IsPlaceholder |-> fss[p].placeholder]
    ELSE [FSExists |-> FALSE, IsPlaceholder |-> FALSE]

\* the filesystems with p added or replaced
WithFS(fss, p, v) == [q \in DOMAIN fss \cup {p} |-> IF q = p THEN v ELSE fss[q]]

\* zfs.ZFSCreatePlaceholderFilesystem: the filesystem is created with the
\* placeholder property set
ZFSCreatePlaceholderFilesystem(fss, p) ==
    WithFS(fss, p, [placeholder |-> TRUE, resume |-> FALSE, received |-> FALSE])

\* zfs.ZFSSetPlaceholder
ZFSSetPlaceholder(fss, p, isPlaceholder) ==
    IF p \in DOMAIN fss THEN WithFS(fss, p, [fss[p] EXCEPT !.placeholder = isPlaceholder])
    ELSE fss

\* ZFSRecvClearResumeToken that returns the error of zfs recv -A also when there is
\* no resumable state to abort
C26_ZFSRecvClearResumeToken_NoStateIsError(fss, p, cmdOk) ==
    IF p \notin DOMAIN fss \/ ~cmdOk THEN [err |-> TRUE, fss |-> fss]
    ELSE IF ~fss[p].resume THEN [err |-> TRUE, fss |-> fss]
    ELSE [err |-> FALSE, fss |-> WithFS(fss, p, [fss[p] EXCEPT !.resume = FALSE])]

\* zfs.ZFSRecvClearResumeToken (zfs recv -A): [err, fss]. zfs fails when the
\* filesystem has no resumable receive state to abort, which is returned as nil;
\* cmdOk is whether the command runs without any other failure
ZFSRecvClearResumeToken(fss, p, cmdOk) ==
    IF p \notin DOMAIN fss \/ ~cmdOk THEN [err |-> TRUE, fss |-> fss]
    ELSE IF ~fss[p].resume THEN [err |-> FALSE, fss |-> fss]
    ELSE [err |-> FALSE, fss |-> WithFS(fss, p, [fss[p] EXCEPT !.resume = FALSE])]

-----------------------------------------------------------------------------
(* endpoint.Receiver.Receive *)

RIdle == [pc |-> "idle", id |-> <<>>, req |-> NoReq, lp |-> <<>>, i |-> 0,
          phErr |-> FALSE, phExists |-> FALSE, rollback |-> FALSE, save |-> FALSE,
          acquired |-> FALSE, res |-> NoRes]

\* Receive returns
RDone(pr, res) ==
    [RIdle EXCEPT !.pc = "done", !.id = pr.id, !.req = pr.req, !.lp = pr.lp,
                  !.acquired = pr.acquired, !.res = res]

\* Receive up to the hierarchy lock: client root and MapToLocal
RecvCall(p, id, r) ==
    /\ rproc[p].pc = "idle"
    /\ LET root == clientRootFromCtx(id)
           lp == MapToLocal(root, r.fs)
           start == [RIdle EXCEPT !.id = id, !.req = r]
       IN rproc' = [rproc EXCEPT ![p] =
              IF lp.err THEN RDone(start, ErrRes("map"))
              ELSE [start EXCEPT !.pc = "lock", !.lp = lp.dp]]
    /\ UNCHANGED <<recvSem, mtx, rfs, created, svars, cvars, repl, recvCmd, zvars>>

\* Receive entering the walk without recvParentCreationMtx.Lock()
C5_RecvLock_NoLock(p) ==
    /\ rproc[p].pc = "lock"
    /\ mtx' = p
    /\ rproc' = [rproc EXCEPT ![p].pc = "walk", ![p].i = 1]
    /\ UNCHANGED <<recvSem, rfs, created, svars, cvars, repl, recvCmd, zvars>>

\* s.recvParentCreationMtx.Lock(), then the forest of lp is built
RecvLock(p) ==
    /\ rproc[p].pc = "lock"
    /\ chainlockLock(mtx, NoProc)
    /\ mtx' = p
    /\ rproc' = [rproc EXCEPT ![p].pc = "walk", ![p].i = 1]
    /\ UNCHANGED <<recvSem, rfs, created, svars, cvars, repl, recvCmd, zvars>>

\* the visitor without the check of rootWithoutClientComponent.HasPrefix(v.Path)
C4_WalkVisitor_NoRootCheck(fss, lp, v, probeOk, createOk) ==
    LET ph == ZFSGetFilesystemPlaceholderState(fss, v)
        stop(e) == [descend |-> FALSE, visitErr |-> e, fss |-> fss, made |-> {}]
    IN IF Equal(v, lp) THEN stop("")
       ELSE IF ~probeOk THEN stop("probe")
       ELSE IF ~ph.FSExists
            THEN IF ~createOk THEN stop("create")
                 ELSE [descend |-> TRUE, visitErr |-> "",
                       fss |-> ZFSCreatePlaceholderFilesystem(fss, v), made |-> {v}]
       ELSE [descend |-> TRUE, visitErr |-> "", fss |-> fss, made |-> {}]

\* the visitor that skips a missing root or ancestor of the root and descends
C15_WalkVisitor_DescendsPastMissingRoot(fss, lp, v, probeOk, createOk) ==
    LET ph == ZFSGetFilesystemPlaceholderState(fss, v)
        stop(e) == [descend |-> FALSE, visitErr |-> e, fss |-> fss, made |-> {}]
    IN IF Equal(v, lp) THEN stop("")
       ELSE IF ~probeOk THEN stop("probe")
       ELSE IF ~ph.FSExists
            THEN IF HasPrefix(rootWithoutClientComponent, v)
                 THEN [descend |-> TRUE, visitErr |-> "", fss |-> fss, made |-> {}]
                 ELSE IF ~createOk THEN stop("create")
                 ELSE [descend |-> TRUE, visitErr |-> "",
                       fss |-> ZFSCreatePlaceholderFilesystem(fss, v), made |-> {v}]
       ELSE [descend |-> TRUE, visitErr |-> "", fss |-> fss, made |-> {}]

\* the visitor without the return at the target: it probes the target and creates it
\* as a placeholder when it is missing
C32_WalkVisitor_VisitsTarget(fss, lp, v, probeOk, createOk) ==
    LET ph == ZFSGetFilesystemPlaceholderState(fss, v)
        stop(e) == [descend |-> FALSE, visitErr |-> e, fss |-> fss, made |-> {}]
        last == Equal(v, lp)
    IN IF ~probeOk THEN stop("probe")
       ELSE IF ~ph.FSExists
            THEN IF HasPrefix(rootWithoutClientComponent, v)
                 THEN IF Len(v) = 1 THEN stop("pool not imported")
                      ELSE stop("root_fs does not exist")
                 ELSE IF ~createOk THEN stop("create")
                 ELSE [descend |-> ~last, visitErr |-> "",
                       fss |-> ZFSCreatePlaceholderFilesystem(fss, v), made |-> {v}]
       ELSE [descend |-> ~last, visitErr |-> "", fss |-> fss, made |-> {}]

\* the visitor Receive passes to WalkTopDown, for the path v of the forest of lp:
\* whether the walk descends, visitErr, the hierarchy afterwards, what was created
WalkVisitor(fss, lp, v, probeOk, createOk) ==
    LET ph == ZFSGetFilesystemPlaceholderState(fss, v)
        stop(e) == [descend |-> FALSE, visitErr |-> e, fss |-> fss, made |-> {}]
    IN IF Equal(v, lp) THEN stop("")
       ELSE IF ~probeOk THEN stop("probe")
       ELSE IF ~ph.FSExists
            THEN IF HasPrefix(rootWithoutClientComponent, v)
                 THEN IF Len(v) = 1 THEN stop("pool not imported")
                      ELSE stop("root_fs does not exist")
                 ELSE IF ~createOk THEN stop("create")
                 ELSE [descend |-> TRUE, visitErr |-> "",
                       fss |-> ZFSCreatePlaceholderFilesystem(fss, v), made |-> {v}]
       ELSE [descend |-> TRUE, visitErr |-> "", fss |-> fss, made |-> {}]

\* the walk with Unlock on the successful end only, not on a visitErr
C6_RecvVisit_KeepsLockOnError(p, probeOk, createOk) ==
    /\ rproc[p].pc = "walk"
    /\ LET pr == rproc[p]
           v == SubSeq(pr.lp, 1, pr.i)
           w == WalkVisitor(rfs, pr.lp, v, probeOk, createOk)
       IN /\ rfs' = w.fss
          /\ created' = created \cup
                 {[path |-> q, placeholder |-> w.fss[q].placeholder] : q \in w.made}
          /\ IF w.descend
             THEN /\ rproc' = [rproc EXCEPT ![p].i = pr.i + 1]
                  /\ UNCHANGED mtx
             ELSE /\ mtx' = IF w.visitErr # "" THEN mtx ELSE NoProc
                  /\ rproc' = [rproc EXCEPT ![p] =
                         IF w.visitErr # "" THEN RDone(pr, ErrRes(w.visitErr))
                         ELSE [pr EXCEPT !.pc = "probe", !.i = 0]]
    /\ UNCHANGED <<recvSem, svars, cvars, repl, recvCmd, zvars>>

\* one visit of WalkTopDown: the path of length i of the chain from the pool to lp.
\* When the walk ends the deferred Unlock runs, and a visitErr is returned
RecvVisit(p, probeOk, createOk) ==
    /\ rproc[p].pc = "walk"
    /\ LET pr == rproc[p]
           v == SubSeq(pr.lp, 1, pr.i)
           w == WalkVisitor(rfs, pr.lp, v, probeOk, createOk)
       IN /\ rfs' = w.fss
          /\ created' = created \cup
                 {[path |-> q, placeholder |-> w.fss[q].placeholder] : q \in w.made}
          /\ IF w.descend
             THEN /\ rproc' = [rproc EXCEPT ![p].i = pr.i + 1]
                  /\ UNCHANGED mtx
             ELSE /\ mtx' = NoProc
                  /\ rproc' = [rproc EXCEPT ![p] =
                         IF w.visitErr # "" THEN RDone(pr, ErrRes(w.visitErr))
                         ELSE [pr EXCEPT !.pc = "probe", !.i = 0]]
    /\ UNCHANGED <<recvSem, svars, cvars, repl, recvCmd, zvars>>

\* after the walk: the placeholder state of lp decides rollback-and-force
RecvProbe(p, probeOk) ==
    /\ rproc[p].pc = "probe"
    /\ LET ph == ZFSGetFilesystemPlaceholderState(rfs, rproc[p].lp)
       IN rproc' = [rproc EXCEPT ![p].pc = "prep",
                                 ![p].phErr = ~probeOk,
                                 ![p].phExists = probeOk /\ ph.FSExists,
                                 ![p].rollback = probeOk /\ ph.FSExists /\ ph.IsPlaceholder]
    /\ UNCHANGED <<recvSem, mtx, rfs, created, svars, cvars, repl, recvCmd, zvars>>

\* Receive going on to ZFSRecv without maxConcurrentZFSRecvSemaphore.Acquire
C10_RecvPrep_SkipsAcquire(p, setOk, clearOk, resumeSupp, phNil) ==
    /\ rproc[p].pc = "prep"
    /\ LET pr == rproc[p]
           fs1 == IF pr.rollback /\ setOk THEN ZFSSetPlaceholder(rfs, pr.lp, FALSE) ELSE rfs
           clear == pr.req.ClearResumeToken
           cleared == ZFSRecvClearResumeToken(fs1, pr.lp, clearOk)
           fs2 == IF clear /\ pr.phExists THEN cleared.fss ELSE fs1
       IN IF pr.rollback /\ ~setOk
          THEN rproc' = [rproc EXCEPT ![p] = RDone(pr, ErrRes("clearplaceholder"))] /\ rfs' = rfs
          ELSE IF clear /\ pr.phErr /\ phNil
          THEN rproc' = [rproc EXCEPT ![p] = RDone(pr, ErrRes("panic"))] /\ rfs' = fs1
          ELSE IF clear /\ pr.phExists /\ cleared.err
          THEN rproc' = [rproc EXCEPT ![p] = RDone(pr, ErrRes("clearresume"))] /\ rfs' = fs1
          ELSE IF resumeSupp = "err"
          THEN rproc' = [rproc EXCEPT ![p] = RDone(pr, ErrRes("resumesupport"))] /\ rfs' = fs2
          ELSE /\ rproc' = [rproc EXCEPT ![p].pc = "recv", ![p].save = (resumeSupp = "yes")]
               /\ rfs' = fs2
    /\ UNCHANGED <<recvSem, mtx, created, svars, cvars, repl, recvCmd, zvars>>

\* clear the placeholder property, clear the resume token, ResumeRecvSupported.
\* resumeSupp is "yes", "no" or "err". phNil is what a failed probe left in ph: nil
\* (ph.FSExists panics) or a state with FSExists = false
RecvPrep(p, setOk, clearOk, resumeSupp, phNil) ==
    /\ rproc[p].pc = "prep"
    /\ LET pr == rproc[p]
           fs1 == IF pr.rollback /\ setOk THEN ZFSSetPlaceholder(rfs, pr.lp, FALSE) ELSE rfs
           clear == pr.req.ClearResumeToken
           cleared == ZFSRecvClearResumeToken(fs1, pr.lp, clearOk)
           fs2 == IF clear /\ pr.phExists THEN cleared.fss ELSE fs1
       IN IF pr.rollback /\ ~setOk
          THEN rproc' = [rproc EXCEPT ![p] = RDone(pr, ErrRes("clearplaceholder"))] /\ rfs' = rfs
          ELSE IF clear /\ pr.phErr /\ phNil
          THEN rproc' = [rproc EXCEPT ![p] = RDone(pr, ErrRes("panic"))] /\ rfs' = fs1
          ELSE IF clear /\ pr.phExists /\ cleared.err
          THEN rproc' = [rproc EXCEPT ![p] = RDone(pr, ErrRes("clearresume"))] /\ rfs' = fs1
          ELSE IF resumeSupp = "err"
          THEN rproc' = [rproc EXCEPT ![p] = RDone(pr, ErrRes("resumesupport"))] /\ rfs' = fs2
          ELSE /\ rproc' = [rproc EXCEPT ![p].pc = "acquire", ![p].save = (resumeSupp = "yes")]
               /\ rfs' = fs2
    /\ UNCHANGED <<recvSem, mtx, created, svars, cvars, repl, recvCmd, zvars>>

\* Receive taking a guard whatever the number of guards that are out
C7_RecvAcquire_NoLimit(p) ==
    /\ rproc[p].pc = "acquire"
    /\ recvSem' = semaphoreAcquired(recvSem)
    /\ rproc' = [rproc EXCEPT ![p].pc = "recv", ![p].acquired = TRUE]
    /\ UNCHANGED <<mtx, rfs, created, svars, cvars, repl, recvCmd, zvars>>

\* maxConcurrentZFSRecvSemaphore.Acquire(ctx) returns a guard
RecvAcquire(p) ==
    /\ rproc[p].pc = "acquire"
    /\ semaphoreAcquire(recvSem, RecvLimit)
    /\ recvSem' = semaphoreAcquired(recvSem)
    /\ rproc' = [rproc EXCEPT ![p].pc = "recv", ![p].acquired = TRUE]
    /\ UNCHANGED <<mtx, rfs, created, svars, cvars, repl, recvCmd, zvars>>

\* maxConcurrentZFSRecvSemaphore.Acquire(ctx) fails: ctx is cancelled while Receive waits
RecvAcquireCancelled(p) ==
    /\ rproc[p].pc = "acquire"
    /\ rproc' = [rproc EXCEPT ![p] = RDone(rproc[p], ErrRes("cancelled"))]
    /\ UNCHANGED <<recvSem, mtx, rfs, created, svars, cvars, repl, recvCmd, zvars>>

\* what zfs recv leaves behind: "ok" the filesystem with the stream's data
\* (received records that a stream was received into it in full),
\* "partial" resumable state (only with -s), "fail" nothing
ZFSRecvEffect(fss, lp, outcome) ==
    LET old == IF lp \in DOMAIN fss THEN fss[lp]
               ELSE [placeholder |-> FALSE, resume |-> FALSE, received |-> FALSE]
    IN CASE outcome = "ok"      -> WithFS(fss, lp, [old EXCEPT !.resume = FALSE, !.received = TRUE])
         [] outcome = "partial" -> WithFS(fss, lp, [old EXCEPT !.resume = TRUE])
         [] OTHER               -> fss

\* ZFSRecv and the return of Receive with guard.Release() on the successful
\* return only
C40_RecvRun_KeepsGuardOnError(p, outcome) ==
    /\ rproc[p].pc = "recv"
    /\ LET pr == rproc[p]
           parent == SubSeq(pr.lp, 1, Len(pr.lp) - 1)
       IN /\ outcome = "ok" => parent \in DOMAIN rfs
          /\ outcome = "partial" => pr.save /\ parent \in DOMAIN rfs
          /\ rfs' = ZFSRecvEffect(rfs, pr.lp, outcome)
          /\ rproc' = [rproc EXCEPT ![p] =
                 RDone(pr, IF outcome = "ok" THEN [kind |-> "ok"] ELSE ErrRes("recv"))]
    /\ recvSem' = IF outcome = "ok" THEN guardRelease(recvSem) ELSE recvSem
    /\ UNCHANGED <<mtx, created, svars, cvars, repl, recvCmd, zvars>>

\* zfs.ZFSRecv and the return of Receive: the deferred guard.Release()
RecvRun(p, outcome) ==
    /\ rproc[p].pc = "recv"
    /\ LET pr == rproc[p]
           parent == SubSeq(pr.lp, 1, Len(pr.lp) - 1)
       IN /\ outcome = "ok" => parent \in DOMAIN rfs
          /\ outcome = "partial" => pr.save /\ parent \in DOMAIN rfs
          /\ rfs' = ZFSRecvEffect(rfs, pr.lp, outcome)
          /\ rproc' = [rproc EXCEPT ![p] =
                 RDone(pr, IF outcome = "ok" THEN [kind |-> "ok"] ELSE ErrRes("recv"))]
    /\ recvSem' = guardRelease(recvSem)
    /\ UNCHANGED <<mtx, created, svars, cvars, repl, recvCmd, zvars>>

\* the RPC layer has delivered the result; the handler is gone
RecvFinish(p) ==
    /\ rproc[p].pc = "done"
    /\ rproc' = [rproc EXCEPT ![p] = RIdle]
    /\ UNCHANGED <<recvSem, mtx, rfs, created, svars, cvars, repl, recvCmd, zvars>>

\* the RPC layer tests the identity a peer presents, in the handshake
HandshakeTestClientIdentity(p, id) ==
    /\ rproc[p].pc = "idle"
    /\ LET start == [RIdle EXCEPT !.id = id,
                                  !.req = [RecvReq(<<>>, FALSE) EXCEPT !.op = "TestClientIdentity"]]
       IN rproc' = [rproc EXCEPT ![p] =
              RDone(start, IF TestClientIdentity(rootWithoutClientComponent, id)
                           THEN ErrRes("identity") ELSE [kind |-> "ok"])]
    /\ UNCHANGED <<recvSem, mtx, rfs, created, svars, cvars, repl, recvCmd, zvars>>

\* Receiver.ListFilesystems for the client id: the filesystems below the client's
\* root, the root prefix trimmed, with the placeholder state and the resume state
ReceiverListFilesystems(fss, id) ==
    LET root == clientRootFromCtx(id) IN
    { [Path |-> ToString(SubSeq(a, Len(root) + 1, Len(a))),
       IsPlaceholder |-> ZFSGetFilesystemPlaceholderState(fss, a).IsPlaceholder,
       ResumeToken |-> fss[a].resume] :
          a \in {q \in DOMAIN fss : subrootFilter(root, q)} }

-----------------------------------------------------------------------------
(* zfs.sendStreamCopier.WriteStreamTo and zfs.ZFSRecv from cmd.Start on *)

\* the most Reads a stream takes up to its end
MaxReads == 3

\* what one Read of the stream returns: n > 0 bytes or none, and err
ReadResults == [n : {0, 1}, err : {"nil", "EOF", "fail"}]

\* the streams: the results of their Reads up to the first with a non-nil err
Streams ==
    UNION { {s \in [1..k -> ReadResults] :
                /\ \A i \in 1..(k - 1) : s[i].err = "nil"
                /\ s[k].err # "nil"} : k \in 1..MaxReads }

\* StreamCopierError values; nil is no error, err the error wrapped
NoCopierErr == [nil |-> TRUE, isReadErr |-> FALSE, err |-> "nil"]
sendStreamCopierError(isReadErr, err) == [nil |-> FALSE, isReadErr |-> isReadErr, err |-> err]

\* one iteration of io.Copy's loop: rd is what src.Read returned, write how dst.Write
\* of the bytes read ends ("ok", "fail": an error, "short": fewer bytes, no error).
\* [stop, err]: whether the loop ends and with which error
CopyIteration(rd, write) ==
    IF rd.n > 0 /\ write = "fail" THEN [stop |-> TRUE, err |-> "write"]
    ELSE IF rd.n > 0 /\ write = "short" THEN [stop |-> TRUE, err |-> "ErrShortWrite"]
    ELSE IF rd.err = "EOF" THEN [stop |-> TRUE, err |-> "nil"]
    ELSE IF rd.err # "nil" THEN [stop |-> TRUE, err |-> rd.err]
    ELSE [stop |-> FALSE, err |-> "nil"]

\* sendStreamCopier.WriteStreamTo after io.Copy returned err; readErr is
\* c.recorder.readErr, the err of the last Read
WriteStreamTo(err, readErr) ==
    IF err # "nil"
    THEN IF readErr # "nil" THEN sendStreamCopierError(TRUE, readErr)
         ELSE sendStreamCopierError(FALSE, err)
    ELSE NoCopierErr

\* the error of the zfs recv process is returned whenever there is one
C29_ZFSRecvReturn_PrefersWaitErr(copierErr, waitErr) ==
    IF copierErr.nil /\ waitErr = "nil" THEN [from |-> "nil", err |-> "nil"]
    ELSE IF waitErr # "nil" THEN [from |-> "waitErr", err |-> waitErr]
    ELSE [from |-> "copierErr", err |-> copierErr.err]

\* ZFSRecv's return after both channels were read: which error, and from whom
ZFSRecvReturn(copierErr, waitErr) ==
    IF copierErr.nil /\ waitErr = "nil" THEN [from |-> "nil", err |-> "nil"]
    ELSE IF waitErr # "nil" /\ (copierErr.nil \/ ~copierErr.isReadErr)
    THEN [from |-> "waitErr", err |-> waitErr]
    ELSE [from |-> "copierErr", err |-> copierErr.err]

\* the createtxgs of the snapshots of the filesystem received into, at most
MaxSnapTXG == 3
SnapSets == SUBSET (1..MaxSnapTXG)

RecvCmdIdle ==
    [pc |-> "idle", stream |-> <<>>, readErr |-> "nil", readFailed |-> FALSE,
     writeFailed |-> FALSE, eof |-> FALSE, copierErr |-> NoCopierErr, exited |-> FALSE,
     waitErr |-> "nil", ret |-> [from |-> "nil", err |-> "nil"],
     rollback |-> FALSE, snaps0 |-> {}, snaps |-> {}, started |-> FALSE,
     read |-> FALSE, cancelled |-> FALSE]

\* sort.Slice by CreateTXG and snaps[0]: the snapshot rolled back to
C36_RollbackTarget_Latest(snaps) ==
    CHOOSE t \in snaps : \A u \in snaps : u <= t
RollbackTarget(snaps) ==
    CHOOSE t \in snaps : \A u \in snaps : t <= u

\* zfs rollback -r: the snapshots later than the target are destroyed
ZFSRollback(snaps, target) ==
    {t \in snaps : t <= target}

\* ZFSRecv is called: s is the stream of the copier, snaps the snapshots the
\* filesystem has. snaps0 is history: the snapshots at the call
ZFSRecvCall(s, rollbackAndForceRecv, snaps) ==
    /\ recvCmd.pc = "idle"
    /\ recvCmd' = [RecvCmdIdle EXCEPT
           !.pc = IF rollbackAndForceRecv THEN "list" ELSE "start",
           !.stream = s, !.rollback = rollbackAndForceRecv,
           !.snaps0 = snaps, !.snaps = snaps]
    /\ UNCHANGED <<svars, rvars, cvars, repl, zvars>>

\* opts.RollbackAndForceRecv: ZFSListFilesystemVersions and the filter for snapshots
ZFSRecvListVersions(ok) ==
    /\ recvCmd.pc = "list"
    /\ recvCmd' = [recvCmd EXCEPT
           !.pc = IF ~ok THEN "failed" ELSE IF recvCmd.snaps = {} THEN "start" ELSE "rollback",
           !.ret = IF ok THEN @ ELSE [from |-> "list", err |-> "cannot list versions"]]
    /\ UNCHANGED <<svars, rvars, cvars, repl, zvars>>

\* ZFSRollback(fsdp, snaps[0], "-r")
ZFSRecvRollback(ok) ==
    /\ recvCmd.pc = "rollback"
    /\ recvCmd' = [recvCmd EXCEPT
           !.pc = IF ok THEN "destroy" ELSE "failed",
           !.snaps = IF ok THEN ZFSRollback(@, RollbackTarget(@)) ELSE @,
           !.ret = IF ok THEN @ ELSE [from |-> "rollback", err |-> "ZFSError"]]
    /\ UNCHANGED <<svars, rvars, cvars, repl, zvars>>

\* ZFSDestroy(rollbackTargetAbs), of the snapshot rolled back to
ZFSRecvDestroyTarget(ok) ==
    /\ recvCmd.pc = "destroy"
    /\ recvCmd' = [recvCmd EXCEPT
           !.pc = IF ok THEN "start" ELSE "failed",
           !.snaps = IF ok THEN @ \ {RollbackTarget(recvCmd.snaps0)} ELSE @,
           !.ret = IF ok THEN @ ELSE [from |-> "destroy", err |-> "ZFSError"]]
    /\ UNCHANGED <<svars, rvars, cvars, repl, zvars>>

\* the pipe and cmd.Start: when it succeeded the two goroutines run. started is
\* history: zfs recv was started
ZFSRecvStart(ok) ==
    /\ recvCmd.pc = "start"
    /\ recvCmd' = [recvCmd EXCEPT
           !.pc = IF ok THEN "copy" ELSE "failed",
           !.started = ok,
           !.ret = IF ok THEN @ ELSE [from |-> "start", err |-> "start"]]
    /\ UNCHANGED <<svars, rvars, cvars, repl, zvars>>

\* one iteration of io.Copy in WriteStreamTo: readErrRecorder.Read, then the Write
\* into the pipe, which cannot succeed once zfs recv has exited. readFailed,
\* writeFailed, eof and read are history: a Read failed, a Write failed or was
\* short, the last Read returned EOF, the stream was read from
CopierIteration(write) ==
    /\ recvCmd.pc = "copy"
    /\ recvCmd.exited => write # "ok"
    /\ LET rd == Head(recvCmd.stream)
           it == CopyIteration(rd, write)
       IN recvCmd' = [recvCmd EXCEPT
              !.stream = Tail(@),
              !.read = TRUE,
              !.readErr = rd.err,
              !.readFailed = @ \/ rd.err = "fail",
              !.writeFailed = @ \/ (rd.n > 0 /\ write # "ok"),
              !.eof = (rd.err = "EOF"),
              !.copierErr = IF it.stop THEN WriteStreamTo(it.err, rd.err) ELSE @,
              !.pc = IF it.stop THEN "copied" ELSE "copy"]
    /\ UNCHANGED <<svars, rvars, cvars, repl, zvars>>

\* copierErr := <-copierErrChan, and cancelCmd() when it is an error
ZFSRecvCopierDone ==
    /\ recvCmd.pc = "copied"
    /\ recvCmd' = [recvCmd EXCEPT !.pc = "waiting",
                                  !.cancelled = ~recvCmd.copierErr.nil]
    /\ UNCHANGED <<svars, rvars, cvars, repl, zvars>>

\* cmd.Wait returns in its goroutine: zfs recv has exited by itself, with success
\* or not. The write end of its stdin stays open until ZFSRecv returns
\* (defer stdinWriter.Close()), so nothing makes it exit
CmdWait(status) ==
    /\ recvCmd.pc \in {"copy", "copied", "waiting"}
    /\ ~recvCmd.exited
    /\ recvCmd' = [recvCmd EXCEPT !.exited = TRUE, !.waitErr = status]
    /\ UNCHANGED <<svars, rvars, cvars, repl, zvars>>

\* exec.CommandContext kills zfs recv once the context is cancelled, and cmd.Wait
\* returns the error of the killed process
CmdKilled ==
    /\ recvCmd.cancelled
    /\ ~recvCmd.exited
    /\ recvCmd' = [recvCmd EXCEPT !.exited = TRUE, !.waitErr = "exit"]
    /\ UNCHANGED <<svars, rvars, cvars, repl, zvars>>

\* waitErr := <-waitErrChan, and ZFSRecv returns
ZFSRecvReturns ==
    /\ recvCmd.pc = "waiting"
    /\ recvCmd.exited
    /\ recvCmd' = [recvCmd EXCEPT !.pc = "returned",
                                  !.ret = ZFSRecvReturn(recvCmd.copierErr, recvCmd.waitErr)]
    /\ UNCHANGED <<svars, rvars, cvars, repl, zvars>>

\* the caller goes on
ZFSRecvDone ==
    /\ recvCmd.pc \in {"returned", "failed"}
    /\ recvCmd' = RecvCmdIdle
    /\ UNCHANGED <<svars, rvars, cvars, repl, zvars>>

-----------------------------------------------------------------------------
(* zfs.EncryptionCLISupported *)

EncProcs == {"e1", "e2", "e3"}
\* the probes counted, at most
MaxProbes == 2

EncIdle == [pc |-> "idle", ret |-> [supported |-> FALSE, err |-> FALSE]]

\* the function passed to once.Do: failed is that zfs load-key could not be run or
\* did not exit, def that its output names load-key and keylocation, env the
\* value of ZREPL_EXPERIMENTAL_ZFS_ENCRYPTION_CLI_SUPPORTED ("unset" or a bool)
EncryptionProbe(e, failed, def, env) ==
    [e EXCEPT !.err = failed,
              !.supported = IF env = "unset" THEN def ELSE (env = "true"),
              !.probes = IF @ < MaxProbes THEN @ + 1 ELSE @]

\* once.Do that runs the function in every caller that finds it not done
C31_EncOnceDo_NoOnce(p) ==
    /\ encCall[p].pc = "do"
    /\ IF encryptionCLISupport.once = "done"
       THEN encCall' = [encCall EXCEPT ![p].pc = "read"] /\ UNCHANGED encryptionCLISupport
       ELSE /\ encCall' = [encCall EXCEPT ![p].pc = "probe"]
            /\ encryptionCLISupport' = [encryptionCLISupport EXCEPT !.once = "running"]
    /\ UNCHANGED <<svars, rvars, cvars, repl, recvCmd, sendStream, streamCall, valCall>>

\* EncryptionCLISupported is called
EncCall(p) ==
    /\ encCall[p].pc = "idle"
    /\ encCall' = [encCall EXCEPT ![p].pc = "do"]
    /\ UNCHANGED <<svars, rvars, cvars, repl, recvCmd, encryptionCLISupport, sendStream, streamCall, valCall>>

\* sync.Once.Do: the first caller runs the function, a caller that comes while it
\* runs waits, a caller that comes after it ended goes on
EncOnceDo(p) ==
    /\ encCall[p].pc = "do"
    /\ encryptionCLISupport.once # "running"
    /\ IF encryptionCLISupport.once = "done"
       THEN encCall' = [encCall EXCEPT ![p].pc = "read"] /\ UNCHANGED encryptionCLISupport
       ELSE /\ encCall' = [encCall EXCEPT ![p].pc = "probe"]
            /\ encryptionCLISupport' = [encryptionCLISupport EXCEPT !.once = "running"]
    /\ UNCHANGED <<svars, rvars, cvars, repl, recvCmd, sendStream, streamCall, valCall>>

\* the function of once.Do runs to its end in the caller that runs it
EncProbe(p, failed, def, env) ==
    /\ encCall[p].pc = "probe"
    /\ encryptionCLISupport' =
           [EncryptionProbe(encryptionCLISupport, failed, def, env) EXCEPT !.once = "done"]
    /\ encCall' = [encCall EXCEPT ![p].pc = "read"]
    /\ UNCHANGED <<svars, rvars, cvars, repl, recvCmd, sendStream, streamCall, valCall>>

\* return encryptionCLISupport.supported, encryptionCLISupport.err
EncReturn(p) ==
    /\ encCall[p].pc = "read"
    /\ encCall' = [encCall EXCEPT ![p] =
           [pc |-> "returned", ret |-> [supported |-> encryptionCLISupport.supported,
                                        err |-> encryptionCLISupport.err]]]
    /\ UNCHANGED <<svars, rvars, cvars, repl, recvCmd, encryptionCLISupport, sendStream, streamCall, valCall>>

\* the caller goes on, and may call again
EncDone(p) ==
    /\ encCall[p].pc = "returned"
    /\ encCall' = [encCall EXCEPT ![p] = EncIdle]
    /\ UNCHANGED <<svars, rvars, cvars, repl, recvCmd, encryptionCLISupport, sendStream, streamCall, valCall>>

-----------------------------------------------------------------------------
(* zfs.sendStream: Read, Close, killAndWait *)

StreamProcs == {"rd", "cl"}
\* cmd.Wait calls counted, at most
MaxWaits == 2

StreamIdle == [pc |-> "idle", op |-> "none", late |-> FALSE, afterEOF |-> FALSE,
               preceding |-> "nil", n |-> 0, ret |-> "nil"]

\* a call returns n bytes and the error ret
StreamReturned(c, n, ret) == [c EXCEPT !.pc = "returned", !.n = n, !.ret = ret]

\* killAndWait without the return of a recorded opErr
C34_killAndWait_NoRecordedCheck(st, precedingReadErr, wait, closeOk) ==
    LET w == IF st.waits > 0 THEN "waitFail" ELSE wait
        waited == [st EXCEPT !.waits = IF @ < MaxWaits THEN @ + 1 ELSE @]
        opErr == IF w = "exitErr" THEN "ZFSError" ELSE "exited with status code 0"
    IN IF w = "waitFail" THEN [st |-> waited, ret |-> "waitErr"]
       ELSE IF st.stdoutReader # "nil" /\ ~closeOk THEN [st |-> waited, ret |-> "closePipeErr"]
       ELSE [st |-> [waited EXCEPT !.stdoutReader = "nil", !.opErr = opErr],
             ret |-> IF w = "exit0" /\ precedingReadErr = "EOF" THEN "EOF" ELSE opErr]

\* killAndWait from closeMtx.Lock() on, for the stream st: [st, ret]. wait is how
\* cmd.Wait ends ("exit0", "exitErr": an ExitError, "waitFail": another error),
\* closeOk whether stdoutReader.Close succeeds. A second cmd.Wait fails.
killAndWait(st, precedingReadErr, wait, closeOk) ==
    LET w == IF st.waits > 0 THEN "waitFail" ELSE wait
        waited == [st EXCEPT !.waits = IF @ < MaxWaits THEN @ + 1 ELSE @]
        opErr == IF w = "exitErr" THEN "ZFSError" ELSE "exited with status code 0"
    IN IF st.opErr # "nil" THEN [st |-> st, ret |-> st.opErr]
       ELSE IF w = "waitFail" THEN [st |-> waited, ret |-> "waitErr"]
       ELSE IF st.stdoutReader # "nil" /\ ~closeOk THEN [st |-> waited, ret |-> "closePipeErr"]
       ELSE [st |-> [waited EXCEPT !.stdoutReader = "nil", !.opErr = opErr],
             ret |-> IF w = "exit0" /\ precedingReadErr = "EOF" THEN "EOF" ELSE opErr]

\* sendStream.Read up to stdoutReader.Read: opErr is read under closeMtx and
\* returned when it is set. late is history: opErr was recorded when the call began
StreamReadCall(p) ==
    /\ streamCall[p].pc = "idle"
    /\ LET c == [StreamIdle EXCEPT !.op = "Read", !.late = (sendStream.opErr # "nil")]
       IN streamCall' = [streamCall EXCEPT ![p] =
              IF sendStream.opErr # "nil" THEN StreamReturned(c, 0, sendStream.opErr)
              ELSE [c EXCEPT !.pc = "reading"]]
    /\ UNCHANGED <<svars, rvars, cvars, repl, recvCmd, encryptionCLISupport, encCall, sendStream, valCall>>

\* s.stdoutReader.Read(p), outside closeMtx: data, or an error (io.EOF, or another
\* error). When a concurrent Close has closed the pipe and set stdoutReader to nil,
\* the Read fails, whichever value of the field it sees
StreamRead(p, outcome) ==
    /\ streamCall[p].pc = "reading"
    /\ sendStream.stdoutReader = "nil" => outcome = "closed"
    /\ sendStream.stdoutReader # "nil" => outcome # "closed"
    /\ streamCall' = [streamCall EXCEPT ![p] =
           IF outcome = "data" THEN StreamReturned(@, 1, "nil")
           ELSE [@ EXCEPT !.pc = "killAndWait", !.preceding = outcome]]
    /\ UNCHANGED <<svars, rvars, cvars, repl, recvCmd, encryptionCLISupport, encCall, sendStream, valCall>>

\* sendStream.Close: killAndWait(nil). afterEOF is history: a Read had returned
\* plain io.EOF when the call began
StreamCloseCall(p) ==
    /\ streamCall[p].pc = "idle"
    /\ streamCall' = [streamCall EXCEPT ![p] =
           [StreamIdle EXCEPT !.op = "Close", !.late = (sendStream.opErr # "nil"),
                              !.afterEOF = sendStream.eofSeen, !.pc = "killAndWait"]]
    /\ UNCHANGED <<svars, rvars, cvars, repl, recvCmd, encryptionCLISupport, encCall, sendStream, valCall>>

\* killAndWait under closeMtx, and the return of Read or Close with its result;
\* eofSeen is history: a Read has returned plain io.EOF
StreamKillAndWait(p, wait, closeOk) ==
    /\ streamCall[p].pc = "killAndWait"
    /\ LET k == killAndWait(sendStream, streamCall[p].preceding, wait, closeOk)
       IN /\ sendStream' = [k.st EXCEPT
                 !.eofSeen = @ \/ (streamCall[p].op = "Read" /\ k.ret = "EOF")]
          /\ streamCall' = [streamCall EXCEPT ![p] = StreamReturned(@, 0, k.ret)]
    /\ UNCHANGED <<svars, rvars, cvars, repl, recvCmd, encryptionCLISupport, encCall, valCall>>

\* the caller goes on
StreamCallDone(p) ==
    /\ streamCall[p].pc = "returned"
    /\ streamCall' = [streamCall EXCEPT ![p] = StreamIdle]
    /\ UNCHANGED <<svars, rvars, cvars, repl, recvCmd, encryptionCLISupport, encCall, sendStream, valCall>>

-----------------------------------------------------------------------------
(* specifications *)

SendInit ==
    /\ sproc = [p \in SendProcs |-> SIdle]
    /\ sendSem = 0
    /\ zvers = InitVersions

\* the receiving side, starting from one of the hierarchies hs
RecvInit(hs) ==
    /\ rproc = [p \in RecvProcs |-> RIdle]
    /\ recvSem = 0
    /\ mtx = NoProc
    /\ rfs \in hs
    /\ created = {}

-----------------------------------------------------------------------------
(* zfs.ZFSSendArgs.Validate, called on its own *)

\* a snapshot name that no filesystem has
V_9 == <<"@", "9">>
\* the GUIDs a caller gives, at most
MaxArgGUID == 2

\* the ZFSSendArgs of the callers: existing and missing filesystems and versions,
\* with every GUID
ValArgs ==
    { [FS |-> fs, From |-> from, To |-> to, Encrypted |-> enc, ResumeToken |-> NoToken] :
          fs \in {S_pa, S_pc},
          from \in {NoVersion} \cup {ArgVersion(rel, g) : rel \in {V_1, V_9}, g \in 0..MaxArgGUID},
          to \in {ArgVersion(rel, g) : rel \in {V_2, V_9}, g \in 0..MaxArgGUID},
          enc \in BOOLEAN }

ValIdle ==
    [pc |-> "idle",
     args |-> [FS |-> <<>>, From |-> NoVersion, To |-> NoVersion, Encrypted |-> FALSE,
               ResumeToken |-> NoToken],
     err |-> FALSE]

\* a.Validate(ctx) on the volume manager's versions
ValidateCall(a, encEnabled) ==
    /\ valCall.pc = "idle"
    /\ valCall' = [pc |-> "returned", args |-> a,
                   err |-> ZFSSendArgsValidate(zvers, a, encEnabled)]
    /\ UNCHANGED <<svars, rvars, cvars, repl, recvCmd, encryptionCLISupport, encCall,
                   sendStream, streamCall>>

\* the caller goes on
ValidateDone ==
    /\ valCall.pc = "returned"
    /\ valCall' = ValIdle
    /\ UNCHANGED <<svars, rvars, cvars, repl, recvCmd, encryptionCLISupport, encCall,
                   sendStream, streamCall>>

\* no probe has run; zfs send was started and its stream was not read yet
ZInit ==
    /\ encryptionCLISupport = [once |-> "new", supported |-> FALSE, err |-> FALSE, probes |-> 0]
    /\ encCall = [p \in EncProcs |-> EncIdle]
    /\ sendStream = [opErr |-> "nil", stdoutReader |-> "open", waits |-> 0, eofSeen |-> FALSE]
    /\ streamCall = [p \in StreamProcs |-> StreamIdle]
    /\ valCall = ValIdle

\* no ZFSSetReplicationCursor in flight, no cursor seen, the pool at transaction
\* group txg
CursorInit(txg) ==
    /\ cursorCall = CursorIdle
    /\ cursorSeen = 0
    /\ poolTXG = txg
    /\ repl = ReplIdle
    /\ recvCmd = RecvCmdIdle
    /\ ZInit

\* the pool and root_fs exist
Init ==
    /\ SendInit
    /\ RecvInit({h \in InitHierarchies : rootWithoutClientComponent \in DOMAIN h})
    /\ CursorInit(2)

\* any of the initial hierarchies
InitAnyHierarchy == SendInit /\ RecvInit(InitHierarchies) /\ CursorInit(2)

\* the sending side with the snapshots of CursorVersions
InitCursor ==
    /\ sproc = [p \in SendProcs |-> SIdle]
    /\ sendSem = 0
    /\ zvers = CursorVersions
    /\ RecvInit({h \in InitHierarchies : rootWithoutClientComponent \in DOMAIN h})
    /\ CursorInit(3)

\* a replication step is planned, for each kind of `from`
InitRepl ==
    /\ SendInit
    /\ RecvInit({h \in InitHierarchies : rootWithoutClientComponent \in DOMAIN h})
    /\ cursorCall = CursorIdle
    /\ cursorSeen = 0
    /\ poolTXG = 2
    /\ repl \in {ReplStart(kind) : kind \in FromKinds}
    /\ recvCmd = RecvCmdIdle
    /\ ZInit

\* the steps of Send in the Sender's RPCs procs, with requests from reqs
SendStep(procs, reqs) ==
    \/ \E p \in procs, r \in reqs, supp \in {"yes", "no", "err"} : SendCall(p, r, supp)
    \/ \E p \in procs : SendAcquire(p)
    \/ \E p \in procs : SendAcquireCancelled(p)
    \/ \E p \in procs, encEnabled \in {"on", "off", "err"},
          cmd \in {"fail", "noestimate", "estimate"}, start \in BOOLEAN :
           SendRun(p, encEnabled, cmd, start)
    \/ \E p \in procs : StreamClose(p)
    \/ \E p \in procs : SendFinish(p)

\* the Sender's other operations on a filesystem
SenderOpStep(procs) ==
    \/ \E p \in procs, fs \in SenderFSNames : SenderListFilesystemVersions(p, fs)
    \/ \E p \in procs, fs \in SenderFSNames, snaps \in DestroyLists,
          undestroyable \in SUBSET {<<"1">>} :
           SenderDestroySnapshots(p, fs, snaps, undestroyable)
    \/ \E p \in procs, fs \in SenderFSNames, op \in CursorOps,
          destroyOk \in BOOLEAN, bookmarkOk \in BOOLEAN :
           SenderReplicationCursor(p, fs, op, destroyOk, bookmarkOk)

\* the steps of Receive in the Receiver's RPCs procs, for clients ids, requests from
\* reqs and the ways outcomes in which zfs recv may end
RecvStep(procs, ids, reqs, outcomes) ==
    \/ \E p \in procs, id \in ids, r \in reqs : RecvCall(p, id, r)
    \/ \E p \in procs : RecvLock(p)
    \/ \E p \in procs, probeOk \in BOOLEAN, createOk \in BOOLEAN : RecvVisit(p, probeOk, createOk)
    \/ \E p \in procs, probeOk \in BOOLEAN : RecvProbe(p, probeOk)
    \/ \E p \in procs, setOk \in BOOLEAN, clearOk \in BOOLEAN, resumeSupp \in {"yes", "no", "err"},
          phNil \in BOOLEAN :
           RecvPrep(p, setOk, clearOk, resumeSupp, phNil)
    \/ \E p \in procs : RecvAcquire(p)
    \/ \E p \in procs : RecvAcquireCancelled(p)
    \/ \E p \in procs, outcome \in outcomes : RecvRun(p, outcome)
    \/ \E p \in procs : RecvFinish(p)

\* one Send at a time, every request
SendNext == SendStep({"s1"}, SendReqs)
SpecSend == Init /\ [][SendNext]_vars

\* one Sender RPC at a time, every operation on every filesystem name
SenderOpsNext ==
    \/ SendStep({"s1"}, AccessSendReqs)
    \/ SenderOpStep({"s1"})
SpecSenderOps == Init /\ [][SenderOpsNext]_vars

\* callers of ZFSSetReplicationCursor (one call at a time) and ZFSGetReplicationCursor
\* on p/a, and others that destroy and take snapshots of p/a
CursorNext ==
    \/ \E fs \in {S_pa, <<>>}, snapname \in {<<"1">>, <<"2">>, <<"3">>, <<>>},
          expGuid \in {GuidOf(t) : t \in 1..MaxTXG} :
           CursorSetCall(fs, snapname, expGuid)
    \/ \E destroyOk \in BOOLEAN : CursorSetDestroy(destroyOk)
    \/ \E bookmarkOk \in BOOLEAN : CursorSetBookmark(bookmarkOk)
    \/ CursorSetReturn
    \/ CursorGet(S_pa)
    \/ \E rel \in {V_1, V_2, V_3} : ExternalDestroySnapshot(S_pa, rel)
    \/ \E rel \in {V_1, V_2, V_3} : ExternalSnapshot(S_pa, rel)
SpecCursor == InitCursor /\ [][CursorNext]_vars

\* one replication step with retries, and pruning tools on both sides
ReplNext ==
    \/ PrepareSend
    \/ PrepareRecv
    \/ AttemptStart
    \/ AttemptReceived
    \/ NetworkFailure
    \/ ReceiverConfirms
    \/ PostActionsRecv
    \/ PostActionsSend
    \/ \E which \in {"sFrom", "sTo", "rFrom", "rTo"} : ExternalPrune(which)
SpecRepl == InitRepl /\ [][ReplNext]_vars

\* calls of ZFSRecv, one at a time, with every stream
RecvCmdNext ==
    \/ \E s \in Streams, f \in BOOLEAN, snaps \in SnapSets : ZFSRecvCall(s, f, snaps)
    \/ \E ok \in BOOLEAN : ZFSRecvListVersions(ok)
    \/ \E ok \in BOOLEAN : ZFSRecvRollback(ok)
    \/ \E ok \in BOOLEAN : ZFSRecvDestroyTarget(ok)
    \/ \E ok \in BOOLEAN : ZFSRecvStart(ok)
    \/ \E write \in {"ok", "fail", "short"} : CopierIteration(write)
    \/ ZFSRecvCopierDone
    \/ \E status \in {"nil", "exit"} : CmdWait(status)
    \/ CmdKilled
    \/ ZFSRecvReturns
    \/ ZFSRecvDone
SpecRecvCmd == Init /\ [][RecvCmdNext]_vars

\* the steps of ZFSRecv and of its goroutines are taken when they can be: the
\* reads of the stream end, a cancelled process is killed. Nothing makes zfs recv
\* exit by itself
RecvCmdFairness ==
    /\ WF_vars(\E ok \in BOOLEAN : ZFSRecvListVersions(ok))
    /\ WF_vars(\E ok \in BOOLEAN : ZFSRecvRollback(ok))
    /\ WF_vars(\E ok \in BOOLEAN : ZFSRecvDestroyTarget(ok))
    /\ WF_vars(\E ok \in BOOLEAN : ZFSRecvStart(ok))
    /\ WF_vars(\E write \in {"ok", "fail", "short"} : CopierIteration(write))
    /\ WF_vars(ZFSRecvCopierDone)
    /\ WF_vars(CmdKilled)
    /\ WF_vars(ZFSRecvReturns)
SpecRecvCmdLive == Init /\ [][RecvCmdNext]_vars /\ RecvCmdFairness

\* concurrent and repeated calls of EncryptionCLISupported
EncNext ==
    \/ \E p \in EncProcs : EncCall(p)
    \/ \E p \in EncProcs : EncOnceDo(p)
    \/ \E p \in EncProcs, failed \in BOOLEAN, def \in BOOLEAN, env \in {"unset", "true", "false"} :
           EncProbe(p, failed, def, env)
    \/ \E p \in EncProcs : EncReturn(p)
    \/ \E p \in EncProcs : EncDone(p)
SpecEnc == Init /\ [][EncNext]_vars

\* Reads by one caller and Closes by another, on one stream
StreamNext ==
    \/ StreamReadCall("rd")
    \/ \E outcome \in {"data", "EOF", "fail", "closed"} : StreamRead("rd", outcome)
    \/ StreamCloseCall("cl")
    \/ \E p \in StreamProcs, wait \in {"exit0", "exitErr", "waitFail"}, closeOk \in BOOLEAN :
           StreamKillAndWait(p, wait, closeOk)
    \/ \E p \in StreamProcs : StreamCallDone(p)
SpecStream == Init /\ [][StreamNext]_vars

\* calls of ZFSSendArgs.Validate, one at a time, with every receiver
ValidateNext ==
    \/ \E a \in ValArgs, encEnabled \in {"on", "off", "err"} : ValidateCall(a, encEnabled)
    \/ ValidateDone
SpecValidate == Init /\ [][ValidateNext]_vars

\* one Receive at a time, every request and client
RecvSeqNext == RecvStep({"r1"}, ClientIdentities, RecvReqs, {"ok", "partial", "fail"})
SpecRecvSeq == InitAnyHierarchy /\ [][RecvSeqNext]_vars

\* concurrent Receives of one client
RecvNext == RecvStep(RecvProcs, {<<"c">>}, ConcRecvReqs, {"ok", "fail"})
SpecRecv == InitAnyHierarchy /\ [][RecvNext]_vars

\* every step of a Receive that can be taken is taken: the adapter calls and
\* zfs recv terminate; the lock and the semaphore serve each of their waiters
\* in the end. That the context of a waiting Receive is cancelled is not forced
RecvFairness ==
    \A p \in RecvProcs :
        /\ SF_vars(RecvLock(p))
        /\ WF_vars(\E probeOk \in BOOLEAN, createOk \in BOOLEAN : RecvVisit(p, probeOk, createOk))
        /\ WF_vars(\E probeOk \in BOOLEAN : RecvProbe(p, probeOk))
        /\ WF_vars(\E setOk \in BOOLEAN, clearOk \in BOOLEAN, resumeSupp \in {"yes", "no", "err"},
                      phNil \in BOOLEAN : RecvPrep(p, setOk, clearOk, resumeSupp, phNil))
        /\ SF_vars(RecvAcquire(p))
        /\ WF_vars(\E outcome \in {"ok", "fail"} : RecvRun(p, outcome))
SpecRecvLive == InitAnyHierarchy /\ [][RecvNext]_vars /\ RecvFairness

\* handshakes with every identity, and the Receives of the identities that pass
IdentityNext ==
    \/ \E id \in PeerIdentities : HandshakeTestClientIdentity("r1", id)
    \/ RecvStep({"r1"},
                {id \in PeerIdentities : ~TestClientIdentity(rootWithoutClientComponent, id)},
                GateRecvReqs, {"ok", "fail"})
SpecIdentity == Init /\ [][IdentityNext]_vars

\* concurrent Sends and Receives competing for the semaphores
Next ==
    \/ SendStep(SendProcs, GateSendReqs)
    \/ RecvStep(RecvProcs, {<<"c">>}, GateRecvReqs, {"ok", "fail"})
Spec == Init /\ [][Next]_vars

-----------------------------------------------------------------------------
(* properties *)

\* the decoded resume token of request r names r's filesystem, carries a from-GUID
\* exactly when r has a From, the local GUID of From, and the local GUID of To
TokenCorresponds(vs, r) ==
    LET t == r.token IN
    /\ t.kind = "ok"
    /\ t.toname = r.fs
    /\ t.HasFromGUID = (r.from # <<>>)
    /\ t.HasFromGUID => \E v \in LookupVersion(vs, r.fs, r.from) : v.guid = t.FromGUID
    /\ t.HasToGUID
    /\ \E v \in LookupVersion(vs, r.fs, r.to) : v.guid = t.ToGUID

\* the versions r names exist
VersionsResolve(vs, r) ==
    /\ LookupVersion(vs, r.fs, r.to) # {}
    /\ r.from # <<>> => LookupVersion(vs, r.fs, r.from) # {}

\* Send decoded the token of r and compared it with r
CrossChecked(sp) ==
    /\ SendShape(sp.req) = "ok"
    /\ filterCheckFS(sp.req.fs).err = "ok"
    /\ sp.req.token.kind = "ok"
    /\ sp.verr \notin {"rtNotSupported", "supporterr"}

\* C1: Send proceeds with the caller's resume token (useResumeToken, UsedResumeToken,
\* a resumed stream) only if the decoded token corresponds to the request: it names
\* the request's filesystem, has a from-GUID exactly when the request has a From, equal
\* to From's local GUID, and has To's local GUID. A Send that compared a token that
\* does not correspond has returned the validation error (the lookup error if a
\* version does not exist), without a guard of the send semaphore and without a stream.
C1_TokenUsedOnlyIfCorresponds ==
    \A p \in SendProcs :
        LET sp == sproc[p] IN
        (sp.pc # "idle" /\ sp.req.op = "Send") =>
            /\ sp.tok # NoToken => sp.tok = sp.req.token /\ TokenCorresponds(zvers, sp.req)
            /\ (sp.res.kind = "ok" /\ sp.res.UsedResumeToken) => TokenCorresponds(zvers, sp.req)
            /\ (sp.stream.open /\ sp.stream.resumed) => TokenCorresponds(zvers, sp.req)
            /\ (CrossChecked(sp) /\ ~TokenCorresponds(zvers, sp.req)) =>
                   /\ sp.pc = "done"
                   /\ sp.res = ErrRes(IF VersionsResolve(zvers, sp.req)
                                      THEN "validation" ELSE "guiderr")
                   /\ ~sp.acquired
                   /\ sp.stream = NoStream
                   /\ sp.tok = NoToken

\* a Send for p/a whose token names p/b was refused with the validation error
C1_MismatchRefused ==
    \E p \in SendProcs :
        /\ sproc[p].pc = "done"
        /\ sproc[p].req.op = "Send"
        /\ sproc[p].req.fs = S_pa
        /\ sproc[p].req.token.kind = "ok"
        /\ sproc[p].req.token.toname = S_pb
        /\ sproc[p].res = ErrRes("validation")
        /\ ~sproc[p].acquired

\* the token's flags are what a send of this kind requires
FlagsMatch(t, encrypted) ==
    IF encrypted THEN t.RawOK /\ t.CompressOK ELSE ~t.RawOK /\ ~t.CompressOK

Denied(fs) ==
    LET dp == NewDatasetPath(fs) IN
    ~dp.err /\ Len(dp.comps) > 0 /\ ~FSFilterPass(dp.comps)

\* C3: Send, ListFilesystemVersions, DestroySnapshots and ReplicationCursor for a
\* filesystem the filter denies return the access error without a call of the volume
\* manager, a guard or a stream, the same for a filesystem that exists (p/b) and one
\* that does not (p/c); the versions of a denied filesystem never change.
C3_DeniedBeforeVolumeManager ==
    /\ \A p \in SendProcs :
           LET sp == sproc[p] IN
           (sp.pc # "idle" /\ Denied(sp.req.fs)
               /\ (sp.req.op = "Send" => SendShape(sp.req) = "ok")) =>
               /\ sp.pc = "done"
               /\ sp.res = ErrRes("access")
               /\ ~sp.vm
               /\ ~sp.acquired
               /\ sp.stream = NoStream
    /\ DOMAIN zvers = DOMAIN InitVersions
    /\ \A fs \in DOMAIN zvers : Denied(fs) => zvers[fs] = InitVersions[fs]

\* DestroySnapshots of an existing snapshot of the denied p/b was refused
C3_DeniedDestroy ==
    \E p \in SendProcs :
        /\ sproc[p].pc = "done"
        /\ sproc[p].req.op = "DestroySnapshots"
        /\ sproc[p].req.fs = S_pb
        /\ sproc[p].req.snaps = <<[Type |-> "Snapshot", Name |-> <<"1">>]>>
        /\ sproc[p].res = ErrRes("access")

C5_OneWalkAtATime ==
    Cardinality({p \in RecvProcs : rproc[p].pc = "walk"}) <= 1

\* one Receive has visited a path of its walk while the other waits for the lock
C5_WalkWhileOtherWaits ==
    \E p, q \in RecvProcs :
        /\ rproc[p].pc = "walk" /\ rproc[p].i >= 2
        /\ rproc[q].pc = "lock"

\* C6: recvParentCreationMtx is held only by a Receive that is inside its walk: it is
\* free after every exit from the walk, and is not held by a Receive that waits for a
\* guard of the receive semaphore or runs zfs recv.
C6_LockHeldOnlyInWalk ==
    /\ mtx \in RecvProcs \cup {NoProc}
    /\ \A p \in RecvProcs : mtx = p => rproc[p].pc = "walk"

\* one Receive walks while the other waits for a guard
C6_WalkWhileOtherWaitsForSlot ==
    \E p, q \in RecvProcs :
        /\ rproc[p].pc = "acquire"
        /\ rproc[q].pc = "walk"
        /\ mtx = q

\* C7: the number of Sends holding a guard of the send semaphore is at most SendLimit
\* and the number of Receives holding a guard of the receive semaphore (running
\* zfs recv) is at most RecvLimit.
C7_HoldersWithinLimits ==
    /\ Cardinality({p \in SendProcs : sproc[p].pc = "holding"}) <= SendLimit
    /\ Cardinality({p \in RecvProcs : rproc[p].pc = "recv"}) <= RecvLimit

\* on both sides one operation holds a guard and another one waits for one
C7_OneHoldsOneWaits ==
    /\ \E p, q \in SendProcs : sproc[p].pc = "holding" /\ sproc[q].pc = "acquire"
    /\ \E p, q \in RecvProcs : rproc[p].pc = "recv" /\ rproc[q].pc = "acquire"

C9_CancelledWithoutSlotAndReleased ==
    /\ \A p \in SendProcs :
           (sproc[p].pc # "idle" /\ sproc[p].res = ErrRes("cancelled")) =>
               ~sproc[p].acquired /\ sproc[p].stream = NoStream
    /\ \A p \in RecvProcs :
           (rproc[p].pc # "idle" /\ rproc[p].res = ErrRes("cancelled")) => ~rproc[p].acquired
    /\ sendSem = Cardinality({p \in SendProcs : sproc[p].pc = "holding"})
    /\ recvSem = Cardinality({p \in RecvProcs : rproc[p].pc = "recv"})

\* a Send and a Receive were cancelled while another Send and Receive held the guards
C9_CancelledWhileWaiting ==
    /\ \E p, q \in SendProcs :
           sproc[p].res = ErrRes("cancelled") /\ sproc[q].pc = "holding"
    /\ \E p, q \in RecvProcs :
           rproc[p].res = ErrRes("cancelled") /\ rproc[q].pc = "recv"

\* C10 as stated: with RecvLimit 1 no Receive begins its placeholder walk while a
\* guard of the receive semaphore is out.
C10_WalkBeginsOnlyWithSlotFree ==
    [][RecvLimit = 1 =>
          \A q \in RecvProcs :
              (rproc[q].pc = "lock" /\ rproc'[q].pc = "walk") => recvSem = 0]_vars

\* C10 amended: with RecvLimit 1 a Receive starts zfs recv only when no other Receive
\* holds a guard: the second of two Receives runs zfs recv after the first released
\* its guard, while its walk is not held back by the guard.
C10_RecvBeginsOnlyWithSlotFree ==
    [][RecvLimit = 1 =>
          \A q \in RecvProcs :
              (rproc[q].pc # "recv" /\ rproc'[q].pc = "recv") =>
                  /\ recvSem = 0
                  /\ \A p \in RecvProcs : rproc[p].pc # "recv"]_vars

\* one Receive has probed a path of its walk while the other runs zfs recv
C10_WalkWhileSlotHeld ==
    \E p, q \in RecvProcs :
        /\ rproc[p].pc = "recv"
        /\ rproc[q].pc = "walk" /\ rproc[q].i >= 2
        /\ recvSem = 1

\* the request of sp has passed the checks before the resume token
PassedFilter(sp) ==
    /\ sp.pc # "idle"
    /\ sp.req.op = "Send"
    /\ SendShape(sp.req) = "ok"
    /\ filterCheckFS(sp.req.fs).err = "ok"

\* Send went on past the resume token: it did not return before Acquire
WentOn(sp) ==
    \/ sp.pc \in {"acquire", "holding", "streaming"}
    \/ sp.acquired
    \/ sp.res = ErrRes("cancelled")

\* C11: a Send with a resume token for which resume-send is unsupported, or whose
\* token cannot be decoded (decoding not supported) or parsed, is not refused: it goes
\* on to the send semaphore with an empty useResumeToken, reports
\* UsedResumeToken = false and returns no resumed stream.
C11_UnsupportedTokenDiscarded ==
    \A p \in SendProcs :
        LET sp == sproc[p] IN
        (PassedFilter(sp) /\ sp.req.token # NoToken
            /\ (sp.supp = "no"
                \/ (sp.supp = "yes" /\ sp.req.token.kind \in {"decnotsupp", "parseerr"}))) =>
            /\ WentOn(sp)
            /\ sp.tok = NoToken
            /\ sp.res.kind = "ok" => ~sp.res.UsedResumeToken
            /\ sp.stream.open => ~sp.stream.resumed

\* a Send whose token could not be parsed has returned a stream from the beginning
C11_FullStreamAfterParsingError ==
    \E p \in SendProcs :
        /\ sproc[p].req.op = "Send"
        /\ sproc[p].req.token.kind = "parseerr"
        /\ sproc[p].stream.open
        /\ ~sproc[p].stream.resumed
        /\ ~sproc[p].res.UsedResumeToken

\* C12: a Send whose resume token is corrupt, or fails to decode in another way than
\* decoding-not-supported or parsing-error, or for which the lookup of the GUID of To
\* or From fails, has returned that error: it did not go on without the token, has
\* no guard of the send semaphore and no stream.
C12_HardTokenErrorsRefuse ==
    \A p \in SendProcs :
        LET sp == sproc[p] IN
        (PassedFilter(sp) /\ sp.supp = "yes"
            /\ \/ sp.req.token.kind \in {"corrupt", "othererr"}
               \/ sp.req.token.kind = "ok" /\ ~VersionsResolve(zvers, sp.req)) =>
            /\ sp.pc = "done"
            /\ sp.res = ErrRes(CASE sp.req.token.kind = "corrupt" -> "corrupt"
                                 [] sp.req.token.kind = "othererr" -> "decodeerr"
                                 [] OTHER -> "guiderr")
            /\ ~sp.acquired
            /\ sp.tok = NoToken
            /\ sp.stream = NoStream

\* a Send with a corrupt token was refused
C12_CorruptRefused ==
    \E p \in SendProcs :
        /\ sproc[p].pc = "done"
        /\ sproc[p].req.op = "Send"
        /\ sproc[p].req.token.kind = "corrupt"
        /\ sproc[p].res = ErrRes("corrupt")
        /\ ~sproc[p].acquired

\* the paths the walks have created
CreatedPaths == {c.path : c \in created}

\* C13: a Receive whose target exists and is a placeholder has cleared the
\* placeholder marker before the stream is handed to zfs recv: while it waits for the
\* receive semaphore or runs zfs recv, and after it has returned the result of a
\* finished zfs recv, its target is not a placeholder and ListFilesystems does not
\* report it as one.
C13_PlaceholderClearedBeforeRecv ==
    \A p \in RecvProcs :
        LET pr == rproc[p] IN
        ((pr.pc \in {"acquire", "recv"} \/ (pr.pc = "done" /\ pr.res = [kind |-> "ok"]))
            /\ pr.lp \in DOMAIN rfs) =>
            /\ ~rfs[pr.lp].placeholder
            /\ \A f \in ReceiverListFilesystems(rfs, pr.id) :
                   f.Path = pr.req.fs => ~f.IsPlaceholder

\* C14: an adapter receive into a filesystem that a walk created as a placeholder,
\* and into which no receive has succeeded yet, is started with rollback-and-force,
\* whatever Receive calls on that filesystem failed or were cancelled before. (Stated
\* for the Receives whose probe of the target succeeded.)
C14_RollbackUntilFirstSuccess ==
    \A p \in RecvProcs :
        LET pr == rproc[p] IN
        (pr.pc = "recv" /\ ~pr.phErr /\ pr.lp \in CreatedPaths /\ pr.lp \in DOMAIN rfs
            /\ ~rfs[pr.lp].received) => pr.rollback

\* the first path of the chain from the pool to the root that does not exist
MissingRootPath(fss) ==
    IF <<rootWithoutClientComponent[1]>> \notin DOMAIN fss
    THEN <<rootWithoutClientComponent[1]>>
    ELSE rootWithoutClientComponent

\* C15: while the configured root or its pool does not exist, a Receive that was
\* mapped returns from the walk with "pool not imported" (the pool is missing) or
\* "root_fs does not exist" (the root is missing): the walk visits nothing deeper
\* than the missing path, no filesystem is created, and no Receive gets past the
\* walk to the target probe, the semaphore or zfs recv.
C15_MissingRootFailsWalk ==
    rootWithoutClientComponent \notin DOMAIN rfs =>
        /\ created = {}
        /\ rfs \in InitHierarchies
        /\ \A p \in RecvProcs :
              LET pr == rproc[p] IN
              /\ pr.pc \notin {"probe", "prep", "acquire", "recv"}
              /\ ~pr.acquired
              /\ pr.pc = "walk" => pr.i <= Len(MissingRootPath(rfs))
              /\ pr.pc = "done" =>
                    pr.res \in {ErrRes("map"), ErrRes("probe"),
                                ErrRes(IF Len(MissingRootPath(rfs)) = 1
                                       THEN "pool not imported"
                                       ELSE "root_fs does not exist")}

\* a Receive has failed with "root_fs does not exist" and nothing was created
C15_RootMissingReported ==
    \E p \in RecvProcs :
        /\ rootWithoutClientComponent \notin DOMAIN rfs
        /\ rproc[p].pc = "done"
        /\ rproc[p].res = ErrRes("root_fs does not exist")
        /\ created = {}

\* the cursor of fs, as a set of at most one version
CursorOf(vs, fs) == LookupVersion(vs, fs, V_cur)

\* C16: a ZFSSetReplicationCursor(fs, snapname, expGuid) called while fs has a cursor
\* whose CreateTXG is greater than the CreateTXG of fs@snapname has returned an error
\* at once ("can only be advanced" when expGuid is the snapshot's guid) and has left
\* the versions of fs, the cursor among them, as they were.
C16_BackwardMoveRefused ==
    [][(cursorCall.pc = "idle" /\ cursorCall'.pc # "idle"
          /\ \E c \in CursorOf(zvers, cursorCall'.fs) :
                \E sv \in LookupVersion(zvers, cursorCall'.fs, <<"@">> \o cursorCall'.snapname) :
                    sv.txg < c.txg) =>
            /\ cursorCall'.pc = "done"
            /\ cursorCall'.err \in {"setback", "guid"}
            /\ cursorCall'.err = "guid" <=>
                   \A sv \in LookupVersion(zvers, cursorCall'.fs, <<"@">> \o cursorCall'.snapname) :
                       sv.guid # cursorCall'.expGuid
            /\ zvers' = zvers]_vars

\* a move of the cursor back to an older snapshot was refused
C16_SetbackRefused ==
    /\ cursorCall.pc = "done"
    /\ cursorCall.err = "setback"
    /\ \E c \in CursorOf(zvers, cursorCall.fs) :
          \E sv \in LookupVersion(zvers, cursorCall.fs, <<"@">> \o cursorCall.snapname) :
              sv.txg < c.txg /\ sv.guid = cursorCall.expGuid

\* C17: a ReplicationCursor Set that the Sender answered with a GUID moved the cursor
\* to a snapshot whose GUID is the GUID the caller expected.
C17_SetChecksExpectedGuid ==
    \A p \in SendProcs :
        LET sp == sproc[p] IN
        (sp.pc = "done" /\ sp.req.op = "ReplicationCursor" /\ sp.req.Op.op = "Set"
            /\ sp.res.kind = "ok") =>
            sp.res.Guid = sp.req.Op.ExpectGuid

\* C18: the CreateTXG of the cursor that a ZFSGetReplicationCursor returns is not
\* smaller than the CreateTXG the one before returned.
C18_SeenCursorNeverDecreases == [][cursorSeen' >= cursorSeen]_vars

\* C19: when ZFSSetReplicationCursor(fs, snapname, expGuid) has returned nil, the
\* cursor of fs has the guid expGuid.
C19_CursorHasExpectedGuid ==
    (cursorCall.pc = "done" /\ cursorCall.err = "ok") =>
        \E c \in CursorOf(zvers, cursorCall.fs) : c.guid = cursorCall.expGuid

C21_CursorNeverVanishes ==
    [][CursorOf(zvers, S_pa) # {} => CursorOf(zvers', S_pa) # {}]_vars

\* C27: a Receive whose probe of the target after the walk failed does not go on to
\* the receive semaphore and zfs recv, and clears no resume token: it returns an error.
C27_ProbeFailureReturned ==
    \A p \in RecvProcs : rproc[p].phErr => rproc[p].pc \notin {"acquire", "recv"}

\* C30: a dry-run Send does not wait for the send semaphore and holds no guard of it.
C30_DryRunTakesNoSlot ==
    \A p \in SendProcs :
        LET sp == sproc[p] IN
        (sp.pc # "idle" /\ sp.req.op = "Send" /\ sp.req.dryRun) =>
            sp.pc # "acquire" /\ ~sp.acquired

DestroyTarget(vs, r, n) ==
    LET fs == ToString(filterCheckFS(r.fs).dp)
    IN IF fs \in DOMAIN vs THEN LookupVersion(vs, fs, <<"@">> \o n) ELSE {}

\* C23: a DestroySnapshots request that passes the filter and has an item that is
\* not a snapshot, at whatever position, ends with the error 'not a snapshot', and
\* the call changes no version of any filesystem.
C23_NonSnapshotFailsWholeRequest ==
    [][\A p \in SendProcs :
        LET r == sproc'[p].req IN
        (/\ sproc[p].pc = "idle" /\ sproc'[p].pc = "done"
         /\ r.op = "DestroySnapshots"
         /\ filterCheckFS(r.fs).err = "ok"
         /\ \E i \in 1..Len(r.snaps) : r.snaps[i].Type # "Snapshot")
        => sproc'[p].res = ErrRes("notsnapshot") /\ zvers' = zvers]_vars

\* a request on p/a whose second item is a bookmark and whose first is an existing
\* snapshot has failed, and the snapshot is there
C23_BookmarkAfterSnapshotRefused ==
    \E p \in SendProcs :
        /\ sproc[p].pc = "done"
        /\ sproc[p].req.op = "DestroySnapshots"
        /\ sproc[p].req.fs = S_pa
        /\ Len(sproc[p].req.snaps) = 2
        /\ sproc[p].req.snaps[1].Type = "Snapshot"
        /\ sproc[p].req.snaps[2].Type = "Bookmark"
        /\ sproc[p].res = ErrRes("notsnapshot")
        /\ DestroyTarget(zvers, sproc[p].req, sproc[p].req.snaps[1].Name) # {}

C25_OnlySingleComponentAccepted ==
    \A p \in RecvProcs :
        (/\ rproc[p].pc = "done"
         /\ rproc[p].req.op = "TestClientIdentity"
         /\ (rproc[p].id = <<>> \/ ContainsAny(rproc[p].id, {"/"})))
        => rproc[p].res = ErrRes("identity")

\* the root of every client that Receives is a child of the configured root
C25_ClientRootBelowRoot ==
    \A p \in RecvProcs :
        (rproc[p].req.op = "Receive" /\ rproc[p].lp # <<>>)
        => HasPrefix(rproc[p].lp, rootWithoutClientComponent)

\* C28: when WriteStreamTo has returned: it returned no error exactly when no Read
\* and no Write failed, and then the stream was read up to EOF; it returned a read
\* error only if a Read failed, and a write error only if a Write failed.
C28_CopierErrorTellsWhatFailed ==
    recvCmd.pc \in {"copied", "returned"} =>
        LET e == recvCmd.copierErr IN
        /\ e.nil <=> (~recvCmd.readFailed /\ ~recvCmd.writeFailed)
        /\ e.nil => recvCmd.eof
        /\ (~e.nil /\ e.isReadErr) => recvCmd.readFailed
        /\ (~e.nil /\ ~e.isReadErr) => recvCmd.writeFailed

\* C29: when ZFSRecv has returned: it returned nil exactly when the copier returned
\* no error and zfs recv exited with success; after a read error of the copier it
\* returned that read error, whatever the exit status; after a failure of zfs recv
\* with no error or a write error of the copier it returned the error of the process.
C29_ZFSRecvErrorPrecedence ==
    recvCmd.pc = "returned" =>
        LET e == recvCmd.copierErr
            w == recvCmd.waitErr
        IN /\ recvCmd.ret.from = "nil" <=> (e.nil /\ w = "nil")
           /\ (~e.nil /\ e.isReadErr) => recvCmd.ret = [from |-> "copierErr", err |-> e.err]
           /\ (w # "nil" /\ (e.nil \/ ~e.isReadErr)) => recvCmd.ret = [from |-> "waitErr", err |-> w]
           /\ recvCmd.ret.from # "nil" => recvCmd.ret.err # "nil"

\* ZFSRecv returned the read error of the copier although zfs recv had failed too
C29_ReadErrorOverProcessError ==
    /\ recvCmd.pc = "returned"
    /\ recvCmd.readFailed
    /\ recvCmd.copierErr = sendStreamCopierError(TRUE, "fail")
    /\ recvCmd.waitErr = "exit"
    /\ recvCmd.ret = [from |-> "copierErr", err |-> "fail"]

\* C32 as stated: the walk probes only paths strictly below the client root, and
\* creates neither the client root nor an ancestor of it.
C32_WalkOnlyBelowClientRoot ==
    /\ \A p \in RecvProcs :
          LET pr == rproc[p]
              root == clientRootFromCtx(pr.id)
          IN (pr.pc = "walk" /\ pr.i < Len(pr.lp))
             => (pr.i > Len(root) /\ HasPrefix(SubSeq(pr.lp, 1, pr.i), root))
    /\ \A c \in created : \A id \in ClientIdentities :
          ~HasPrefix(clientRootFromCtx(id), c.path)

\* C32: the walk of a Receive starts at the pool, the path of length 1 of its target,
\* and goes down by one component at a time; it ends without error only at the
\* target, so every proper ancestor of the target was probed, each after its
\* parent. The only filesystem a visit creates is the visited path, which is then a
\* proper ancestor of the target, is neither the configured root nor an ancestor of
\* it, and has a parent that exists; the client root itself may be created.
C32_WalkFromPoolToTarget ==
    [][\A p \in RecvProcs :
        LET pr == rproc[p]
            v == SubSeq(pr.lp, 1, pr.i)
        IN /\ (pr.pc = "lock" /\ rproc'[p].pc = "walk") => rproc'[p].i = 1
           /\ (pr.pc = "walk" /\ rproc'[p] # pr) =>
                 /\ 1 <= pr.i /\ pr.i <= Len(pr.lp)
                 /\ rproc'[p].pc = "walk" => (rproc'[p].i = pr.i + 1 /\ pr.i < Len(pr.lp))
                 /\ rproc'[p].pc = "probe" => pr.i = Len(pr.lp)
                 /\ \A q \in DOMAIN rfs' \ DOMAIN rfs :
                       /\ q = v
                       /\ pr.i < Len(pr.lp)
                       /\ ~HasPrefix(rootWithoutClientComponent, v)
                       /\ SubSeq(v, 1, pr.i - 1) \in DOMAIN rfs
                       /\ rfs'[q].placeholder]_vars

\* a walk has created the root of client c as a placeholder
C32_ClientRootCreated ==
    \E c \in created : c.path = clientRootFromCtx(<<"c">>) /\ c.placeholder

\* C38: the client root of every identity that TestClientIdentity accepts is the
\* configured root plus one component, and the local path of every Receive of an
\* accepted identity lies strictly below the configured root.
C38_ClientRootIsChildOfRoot ==
    \A p \in RecvProcs :
        LET pr == rproc[p]
            cr == clientRoot(rootWithoutClientComponent, pr.id)
        IN /\ (pr.pc = "done" /\ pr.req.op = "TestClientIdentity" /\ pr.res = [kind |-> "ok"])
              => /\ ~cr.err
                 /\ Len(cr.dp) = Len(rootWithoutClientComponent) + 1
                 /\ HasPrefix(cr.dp, rootWithoutClientComponent)
           /\ (pr.req.op = "Receive" /\ pr.lp # <<>>)
              => /\ Len(pr.lp) > Len(rootWithoutClientComponent)
                 /\ HasPrefix(pr.lp, rootWithoutClientComponent)

\* C31: the probe runs at most once; once it has run, supported and err never change;
\* and every call that returns returns the supported and err the probe left, a
\* failure of the probe included.
C31_ProbedOnceSameAnswer ==
    [][/\ encryptionCLISupport'.probes <= 1
       /\ encryptionCLISupport.once = "done" => encryptionCLISupport' = encryptionCLISupport
       /\ \A p \in EncProcs :
             encCall'[p].pc = "returned" =>
                 /\ encryptionCLISupport'.once = "done"
                 /\ encCall'[p].ret = [supported |-> encryptionCLISupport'.supported,
                                       err |-> encryptionCLISupport'.err]]_vars

\* two concurrent callers have returned the error of the one probe that failed
\* while a third waits in once.Do
C31_FailureReturnedToAll ==
    /\ encryptionCLISupport.probes = 1
    /\ encryptionCLISupport.err
    /\ encCall["e1"].pc = "returned" /\ encCall["e1"].ret.err
    /\ encCall["e2"].pc = "returned" /\ encCall["e2"].ret.err
    /\ encCall["e3"].pc = "do"

\* C33: a Close that is called after a Read has returned plain end-of-stream (the
\* pipe at EOF, zfs send exited with status zero) returns no error.
C33_CloseAfterCleanEOF ==
    \A p \in StreamProcs :
        (/\ streamCall[p].pc = "returned"
         /\ streamCall[p].op = "Close"
         /\ streamCall[p].afterEOF)
        => streamCall[p].ret = "nil"

\* C34: once opErr is recorded it never changes and cmd.Wait is not called again;
\* a Read or Close that began after it was recorded returns it, a Read with zero
\* bytes; and a call that reaches killAndWait's critical section after it was
\* recorded, a Read in flight during a concurrent Close included, returns it and
\* changes nothing of the stream.
C34_RecordedErrorIsFinal ==
    [][/\ sendStream.opErr # "nil" =>
             /\ sendStream'.opErr = sendStream.opErr
             /\ sendStream'.waits = sendStream.waits
             /\ sendStream'.stdoutReader = sendStream.stdoutReader
       /\ \A p \in StreamProcs :
             LET c == streamCall'[p] IN
             /\ (c.pc = "returned" /\ c.late) => (c.ret = sendStream'.opErr /\ c.n = 0)
             /\ (streamCall[p].pc = "killAndWait" /\ c.pc = "returned" /\ sendStream.opErr # "nil")
                    => (c.ret = sendStream.opErr /\ c.n = 0)]_vars

\* a Read that was in flight when a concurrent Close recorded the exit has failed
\* on the closed pipe and returned the recorded error
C34_ReadInFlightGetsRecordedError ==
    /\ streamCall["rd"].pc = "returned"
    /\ streamCall["rd"].op = "Read"
    /\ ~streamCall["rd"].late
    /\ streamCall["rd"].preceding = "closed"
    /\ streamCall["rd"].ret = "ZFSError"
    /\ sendStream.opErr = "ZFSError"
    /\ sendStream.waits = 1

\* C35: ZFSRecv terminates whenever the copier's WriteStreamTo terminates: once the
\* copier has finished, ZFSRecv returns
C35_ReturnsOnceCopierEnded ==
    (recvCmd.pc = "copied") ~> (recvCmd.pc = "returned")

\* ZFSRecv returns only after the copier finished and the child exited, the child
\* is cancelled exactly when the copier reported an error
C35_ReturnsAfterBoth ==
    /\ recvCmd.pc = "returned" => (recvCmd.exited /\ (recvCmd.eof \/ ~recvCmd.copierErr.nil))
    /\ recvCmd.cancelled <=> (recvCmd.pc \in {"waiting", "returned"} /\ ~recvCmd.copierErr.nil)

\* a copier that reported an error is followed by the return of ZFSRecv
C35_ReturnsOnceCopierFailed ==
    (recvCmd.pc = "copied" /\ ~recvCmd.copierErr.nil) ~> (recvCmd.pc = "returned")

\* the copier ended without an error, zfs recv has not exited and is not cancelled
C35_WaitingForChild ==
    /\ recvCmd.pc = "waiting"
    /\ recvCmd.copierErr.nil
    /\ ~recvCmd.exited
    /\ ~recvCmd.cancelled

\* C36: with RollbackAndForceRecv the filesystem is rolled back to its snapshot of
\* the lowest createtxg, then that snapshot is destroyed, and only then zfs recv
\* is started, so that the filesystem has no snapshot then; when the listing, the
\* rollback or the destroy fails, ZFSRecv returns the error, zfs recv is not started
\* and the stream is not read. Without the option no snapshot is touched
C36_RollbackBeforeForcedRecv ==
    /\ (recvCmd.started /\ recvCmd.rollback) => recvCmd.snaps = {}
    /\ recvCmd.pc = "destroy" => recvCmd.snaps = {RollbackTarget(recvCmd.snaps0)}
    /\ recvCmd.pc = "destroy" => \A t \in recvCmd.snaps0 : RollbackTarget(recvCmd.snaps0) <= t
    /\ recvCmd.pc \in {"list", "rollback", "destroy", "start", "failed"} =>
           (~recvCmd.started /\ ~recvCmd.read)
    /\ (recvCmd.pc = "failed") <=> (recvCmd.ret.from \in {"list", "rollback", "destroy", "start"})
    /\ ~recvCmd.rollback => recvCmd.snaps = recvCmd.snaps0

\* zfs recv -F runs on a filesystem that had several snapshots
C36_ForcedRecvStarted ==
    /\ recvCmd.started
    /\ recvCmd.rollback
    /\ recvCmd.read
    /\ Cardinality(recvCmd.snaps0) >= 2
    /\ recvCmd.snaps = {}

C37_ExistingVersionsChecked ==
    (valCall.pc = "returned" /\ ~valCall.err) =>
        \A a \in {valCall.args.To, valCall.args.From} :
            (~a.nil /\ LookupVersion(zvers, valCall.args.FS, a.RelName) # {}) =>
                \E v \in LookupVersion(zvers, valCall.args.FS, a.RelName) : v.guid = a.GUID

\* C39: a Receive that starts zfs.ZFSRecv without RollbackAndForceRecv, after a
\* probe of its target that succeeded, has a target that is not a placeholder at
\* that moment, whatever a concurrent Receive does
C39_NoPlainRecvIntoPlaceholder ==
    \A p \in RecvProcs :
        (rproc[p].pc = "recv" /\ ~rproc[p].rollback /\ ~rproc[p].phErr) =>
            ~ZFSGetFilesystemPlaceholderState(rfs, rproc[p].lp).IsPlaceholder

\* no Receive holds recvParentCreationMtx while it waits for a receive slot or
\* runs zfs recv, none waits for the lock or walks while it holds a slot
C40_LockAndSlotApart ==
    \A p \in RecvProcs :
        /\ mtx = p => (rproc[p].pc = "walk" /\ ~rproc[p].acquired)
        /\ rproc[p].pc \in {"lock", "walk", "probe", "prep", "acquire"} => ~rproc[p].acquired
        /\ rproc[p].pc = "recv" => (rproc[p].acquired /\ mtx # p)

\* C40: the hierarchy lock and the receive semaphore never deadlock: no Receive
\* holds the lock while it waits for a slot, none waits for the lock while it
\* holds a slot, and when every adapter call and every stream terminates, every
\* Receive that was called returns
C40_EveryReceiveReturns ==
    /\ []C40_LockAndSlotApart
    /\ \A p \in RecvProcs : (rproc[p].pc # "idle") ~> (rproc[p].pc = "done")

\* one Receive waits for the slot the other holds, another walk may go on
C40_WaitsForSlot ==
    \E p, q \in RecvProcs :
        /\ rproc[p].pc = "acquire"
        /\ rproc[q].pc = "recv"
        /\ recvSem = RecvLimit
        /\ mtx = NoProc

=============================================================================
